---------------------------- MODULE Spec2Model ----------------------------
(***************************************************************************)
(* Letterboxd Wrapped: the analytics core (src/lib/analytics.ts), the      *)
(* persona endpoint (api/analyze-reviews) and the Home page's analysis run *)
(* (app/page.tsx), as state machines.                                      *)
(*                                                                         *)
(* Numbers.  Ratings are held in half stars (rating * 2), avgRating in     *)
(* hundredths (avgRating * 100), ratingVolatility in hundredths.  JS       *)
(* numbers are IEEE-754 doubles; where the double result of an expression  *)
(* can differ from the exact one (a product that lands on a rounding       *)
(* boundary) the operator computes the double result, see PctRound.        *)
(***************************************************************************)
EXTENDS Integers, Sequences, FiniteSets, TLC

VARIABLES
    entries,    \* the DiaryEntry[] an analytics operation is applied to
    arg,        \* the operation's second argument (year, stats, minRating)
    op,         \* the analytics operation applied last ("none" before any)
    result,     \* what that operation returned
    home,       \* Home component state: data, isLoading, error, phase
    run,        \* the handleFileSelect invocation in flight (its position)
    net,        \* the outbound requests' answers that have arrived
    api,        \* the analyze-reviews endpoint: request, position, response
    ui          \* mounted components below the page, their timers and callbacks

vars == <<entries, arg, op, result, home, run, net, api, ui>>

-----------------------------------------------------------------------------
(* Bounds of the model *)

MaxYearLen == 4     \* longest entry list enumerated for the year operations
MaxStatsLen == 3    \* longest entry list enumerated for calculateStats
MaxRatedLen == 5    \* longest entry list enumerated for classifyArchetype
BulkLen == 40       \* length of the long diaries given to calculateStats
MaxTextLen == 3     \* longest generated text (in tokens) the persona service returns
MaxReviews == 2     \* most reviews in a persona request
MaxFilms == 6       \* most rows of one year in an uploaded diary
MaxAvgLen == 4      \* longest list of rated and unrated entries for avgRating
MaxTasteLen == 6    \* most data lines of a csv handed on to calculateTasteProfile
MaxCsvRows == 2     \* most data lines of a csv with varied headers
MaxLineLen == 6     \* most characters of a csv line
MaxHighLen == 4     \* longest list over null, NaN and numeric ratings
LongHighLen == 7    \* length of the lists of entries rated 4 and above
MaxDayLen == 4      \* longest list over dates with and without a time
RatedBulkLen == 20  \* length of the long all-rated diaries
MaxPureLen == 3     \* longest entry list the operations are applied to in turn
MaxCalls == 2       \* most operations applied in turn to one entry list
MaxBatchLen == 2    \* longest batch enumerated over every lookup outcome
LongBatchLen == 22  \* length of the batches longer than the endpoint's limit
MaxGenreLen == 6    \* longest list of genre counts given to assignGenreColors
MaxGenreCount == 4  \* largest count of one genre
MaxPending == 2     \* most completion callbacks waiting in uncleared timers
MaxRenders == 4     \* most renders of a component's parent with new props
MaxClicks == 2      \* most clicks on the music button

-----------------------------------------------------------------------------
(* DiaryEntry (types.ts) and the values of its fields *)

\* Rating: number | null.  A number is held in half stars; parseFloat of a
\* non-numeric text is NaN.
NullRating == -1
NaNRating == -2

\* Rewatch?: string.  An absent column is undefined.
Undefined == "undefined"

\* A Date text, by what `new Date(text)` makes of it: an Invalid Date, or a
\* date with a year, month and day; time is whether a "T.." part follows.
BadDate == [valid |-> FALSE, y |-> 0, m |-> 0, d |-> 0, time |-> FALSE]
DateOf(y, m, d) == [valid |-> TRUE, y |-> y, m |-> m, d |-> d, time |-> FALSE]

\* URI is the 'Letterboxd URI' column: one per diary row.
DiaryEntry(uri, date, name, rating, rewatch) ==
    [URI |-> uri, Date |-> date, Name |-> name, Year |-> 0, Rating |-> rating,
     Rewatch |-> rewatch]

\* !isNaN(new Date(entry.Date).getTime())
DateParses(e) == e.Date.valid
\* new Date(entry.Date).getFullYear()
GetFullYear(e) == e.Date.y

\* new Date().getFullYear(): the system clock's year
CurrentYear == 2026

-----------------------------------------------------------------------------
(* Array helpers *)

\* Array.prototype.filter is SelectSeq: the kept elements, in order.

\* Array.prototype.slice(0, n)
Slice(s, n) == IF Len(s) <= n THEN s ELSE SubSeq(s, 1, n)

\* Array.prototype.sort with comparator (a, b) => b[1] - a[1] over [key, count]
\* pairs: stable (ES2019), descending by count.  Insertion from the right keeps
\* equal counts in their original order.
RECURSIVE InsertDesc(_, _)
InsertDesc(p, sorted) ==
    IF sorted = <<>> THEN <<p>>
    ELSE IF Head(sorted)[2] >= p[2] THEN <<Head(sorted)>> \o InsertDesc(p, Tail(sorted))
         ELSE <<p>> \o sorted

RECURSIVE SortDescByCount(_)
SortDescByCount(pairs) ==
    IF pairs = <<>> THEN <<>>
    ELSE LET rest == SortDescByCount(SubSeq(pairs, 1, Len(pairs) - 1))
         IN InsertDesc(pairs[Len(pairs)], rest)

\* Object.entries(record) of a record with integer-like keys: the keys come
\* in ascending numeric order, whatever the order they were set in.
RECURSIVE ObjectEntries(_)
ObjectEntries(counts) ==
    IF DOMAIN counts = {} THEN <<>>
    ELSE LET k == CHOOSE x \in DOMAIN counts : \A z \in DOMAIN counts : x <= z
         IN <<<<k, counts[k]>>>> \o
            ObjectEntries([z \in DOMAIN counts \ {k} |-> counts[z]])

-----------------------------------------------------------------------------
(* detectTargetYear, filterByYear *)

\* entries.forEach(...): yearCounts[year] = (yearCounts[year] || 0) + 1
RECURSIVE YearCounts(_)
YearCounts(es) ==
    IF es = <<>> THEN <<>>
    ELSE LET e == es[Len(es)]
             before == YearCounts(SubSeq(es, 1, Len(es) - 1))
         IN IF ~DateParses(e) THEN before
            ELSE LET y == GetFullYear(e)
                     n == IF y \in DOMAIN before THEN before[y] ELSE 0
                 IN [z \in DOMAIN before \cup {y} |-> IF z = y THEN n + 1 ELSE before[z]]

detectTargetYear_ascending(es) ==
    LET years == ObjectEntries(YearCounts(es))
    IN IF Len(years) = 0 THEN CurrentYear
       ELSE SortDescByCount(years)[Len(years)][1]

detectTargetYear_lastKey(es) ==
    LET years == ObjectEntries(YearCounts(es))
        sorted == SortDescByCount(years)
        top == SelectSeq(sorted, LAMBDA p : p[2] = sorted[1][2])
    IN IF Len(years) = 0 THEN CurrentYear
       ELSE top[Len(top)][1]

detectTargetYear(es) ==
    LET years == ObjectEntries(YearCounts(es))
    IN IF Len(years) = 0 THEN CurrentYear
       ELSE SortDescByCount(years)[1][1]

filterByYear_dropFirst(es, year) ==
    LET kept == SelectSeq(es, LAMBDA e : DateParses(e) /\ GetFullYear(e) = year)
    IN IF Len(kept) > 1 THEN Tail(kept) ELSE kept

filterByYear(es, year) ==
    SelectSeq(es, LAMBDA e : DateParses(e) /\ GetFullYear(e) = year)

-----------------------------------------------------------------------------
(* JS number arithmetic *)

\* NaN, as a value of a numeric field
NaN == -2

\* 2^n
RECURSIVE Pow2(_)
Pow2(n) == IF n <= 0 THEN 1 ELSE 2 * Pow2(n - 1)

\* 2^s mod b
RECURSIVE Pow2Mod(_, _)
Pow2Mod(s, b) == IF s = 0 THEN 1 % b ELSE (2 * Pow2Mod(s - 1, b)) % b

\* The binary exponent of a/b (a, b > 0): the j with 2^-j <= a/b < 2^(1-j)
RECURSIVE BinExpDown(_, _, _)
BinExpDown(a, b, j) == IF a * Pow2(j) >= b THEN j ELSE BinExpDown(a, b, j + 1)
RECURSIVE BinExpUp(_, _, _)
BinExpUp(a, b, i) == IF a < b * Pow2(i + 1) THEN i ELSE BinExpUp(a, b, i + 1)
BinExp(a, b) == IF a >= b THEN 0 - BinExpUp(a, b, 0) ELSE BinExpDown(a, b, 1)

\* The largest power of two <= n (n >= 1)
RECURSIVE Pow2Floor(_, _)
Pow2Floor(n, p) == IF 2 * p <= n THEN Pow2Floor(n, 2 * p) ELSE p

\* Math.round((a / b) * 100) for integers a >= 0, b > 0, in IEEE-754 doubles
\* (53-bit significands, round to nearest even), Math.round(x) = floor(x + 0.5).
\* The quotient a/b is rounded to a double q, the product q * 100 is rounded
\* again.  Unless 100a/b is exactly a half-integer k + 1/2 the two roundings
\* cannot move the product across a half-integer (it lies at least 1/(2b) from
\* one) and the result is the exact round-half-up.  When 100a/b = k + 1/2:
\*   s    the scale of q's significand (q = m * 2^-s, m = round(a * 2^s / b)),
\*   rem  (a * 2^s) mod b: q was rounded down iff 2 * rem < b, by rem/b units
\*        of 2^-s, so the exact product is k + 1/2 - 100 * rem/b units;
\*   that rounds to a double below k + 1/2 iff it lies more than half an ulp
\*   (of the doubles next below k + 1/2) from it, and then Math.round gives k.
PctRound(a, b) ==
    IF (200 * a) % b # 0 \/ ((200 * a) \div b) % 2 = 0
    THEN (200 * a + b) \div (2 * b)
    ELSE LET k == (100 * a) \div b
             j == BinExp(a, b)
             rem == (a * Pow2Mod(52 + j, b)) % b
             p2 == Pow2Floor(2 * k + 1, 1)
             scale == IF p2 = 2 * k + 1 THEN 800 ELSE 400
         IN IF 2 * rem >= b THEN k + 1
            ELSE IF scale * rem * Pow2(0 - j) > p2 * Pow2(j) * b THEN k ELSE k + 1

\* a > b, a >= b, a < b on numbers either of which may be NaN
Gt(a, b) == a # NaN /\ b # NaN /\ a > b
Ge(a, b) == a # NaN /\ b # NaN /\ a >= b
Lt(a, b) == a # NaN /\ b # NaN /\ a < b

\* Sum of a sequence of integers (reduce((a, b) => a + b, 0))
RECURSIVE Sum(_)
Sum(s) == IF s = <<>> THEN 0 ELSE Head(s) + Sum(Tail(s))

\* String.prototype.toLowerCase on the marker texts of the model
ToLowerCase(s) ==
    CASE s = "Yes" -> "yes"
      [] s = "YES" -> "yes"
      [] s = "No" -> "no"
      [] OTHER -> s

-----------------------------------------------------------------------------
(* calculateStats *)

\* e.Rewatch?.toLowerCase() === 'yes'
IsRewatch(e) ==
    IF e.Rewatch = Undefined THEN FALSE ELSE ToLowerCase(e.Rewatch) = "yes"

\* e.Rating !== null && !isNaN(e.Rating)
IsRated(e) == e.Rating # NullRating /\ e.Rating # NaNRating

RatingsOf(es) == [i \in 1..Len(es) |-> es[i].Rating]

\* Math.round((sum / n) * 100) / 100, in hundredths; the ratings are half
\* stars, so sum / n = (sum of halves) / (2 * n)
AvgRating(rated) ==
    IF Len(rated) > 0 THEN PctRound(Sum(RatingsOf(rated)), 2 * Len(rated)) ELSE 0

calculateStats_caseSensitive(es) ==
    LET totalFilms == Len(es)
        rewatches == Len(SelectSeq(es, LAMBDA e : e.Rewatch = "yes"))
    IN [totalFilms |-> totalFilms,
        uniqueFilms |-> Cardinality({es[i].Name : i \in 1..Len(es)}),
        totalHours |-> totalFilms * 2,
        avgRating |-> AvgRating(SelectSeq(es, IsRated)),
        rewatches |-> rewatches,
        rewatchPct |-> IF totalFilms > 0 THEN PctRound(rewatches, totalFilms) ELSE 0]

calculateStats_firstRatingTwice(es) ==
    LET totalFilms == Len(es)
        rewatches == Len(SelectSeq(es, IsRewatch))
        rated == SelectSeq(es, IsRated)
    IN [totalFilms |-> totalFilms,
        uniqueFilms |-> Cardinality({es[i].Name : i \in 1..Len(es)}),
        totalHours |-> totalFilms * 2,
        avgRating |-> AvgRating(IF rated = <<>> THEN rated ELSE <<Head(rated)>> \o rated),
        rewatches |-> rewatches,
        rewatchPct |-> IF totalFilms > 0 THEN PctRound(rewatches, totalFilms) ELSE 0]

calculateStats(es) ==
    LET totalFilms == Len(es)
        rewatches == Len(SelectSeq(es, IsRewatch))
    IN [totalFilms |-> totalFilms,
        uniqueFilms |-> Cardinality({es[i].Name : i \in 1..Len(es)}),
        totalHours |-> totalFilms * 2,
        avgRating |-> AvgRating(SelectSeq(es, IsRated)),
        rewatches |-> rewatches,
        rewatchPct |-> IF totalFilms > 0 THEN PctRound(rewatches, totalFilms) ELSE 0]

-----------------------------------------------------------------------------
(* calculateTasteProfile *)

\* With n ratings in half stars h, S1 their sum and S2 the sum of their
\* squares, D = n * S2 - S1^2, the population variance in stars is D / (4 n^2),
\* stdDev = sqrt(D) / (2n) and stdDev / 2.5 = sqrt(D) / (5n).  Every rounding
\* below is decided on these exact values; the double results agree with
\* them for fewer than 8 rated entries, where no value to be rounded is a
\* half-integer and no compared value is within rounding error of its
\* threshold without being equal to it.
SumSquares(rs) == Sum([i \in 1..Len(rs) |-> rs[i] * rs[i]])

\* Math.round(Math.min(stdDev / 2.5, 1) * 100): the largest k in 0..100 with
\* k - 1/2 <= 20 * sqrt(D) / n
VolatilityPct(n, D) ==
    CHOOSE k \in 0..100 :
        /\ (k = 0 \/ (2 * k - 1) * (2 * k - 1) * n * n <= 1600 * D)
        /\ (k = 100 \/ (2 * k + 1) * (2 * k + 1) * n * n > 1600 * D)

\* Math.round((1 - Math.min(stdDev / 2.5, 1)) * 100): the largest k in 0..100
\* with k <= 100.5 - 20 * sqrt(D) / n, 0 once the volatility is clamped to 1
StabilityPct(n, D) ==
    IF D >= 25 * n * n THEN 0
    ELSE CHOOSE k \in 0..100 :
        /\ 1600 * D <= (201 - 2 * k) * (201 - 2 * k) * n * n
        /\ (k = 100 \/ 1600 * D > (199 - 2 * k) * (199 - 2 * k) * n * n)

DefaultTasteProfile ==
    [stabilityScore |-> 50, ratingVolatility |-> 50, isContrarian |-> FALSE,
     contrarianScore |-> 0]

calculateTasteProfile_sixRated(es) ==
    LET ratedFilms == SelectSeq(es, LAMBDA e : e.Rating # NullRating)
        ratings == RatingsOf(ratedFilms)
        n == Len(ratings)
        S1 == Sum(ratings)
        D == n * SumSquares(ratings) - S1 * S1
    IN IF n < 6 THEN DefaultTasteProfile
       ELSE IF \E i \in 1..n : ratings[i] = NaNRating
       THEN [stabilityScore |-> NaN, ratingVolatility |-> NaN,
             isContrarian |-> FALSE, contrarianScore |-> NaN]
       ELSE [stabilityScore |-> StabilityPct(n, D),
             ratingVolatility |-> VolatilityPct(n, D),
             isContrarian |-> (S1 < 7 * n \/ D > 9 * n * n),
             contrarianScore |-> (201 * n - 20 * S1) \div (2 * n)]

calculateTasteProfile_roundedVolatility(es) ==
    LET ratedFilms == SelectSeq(es, LAMBDA e : e.Rating # NullRating)
        ratings == RatingsOf(ratedFilms)
        n == Len(ratings)
        S1 == Sum(ratings)
        D == n * SumSquares(ratings) - S1 * S1
    IN IF n < 5 THEN DefaultTasteProfile
       ELSE IF \E i \in 1..n : ratings[i] = NaNRating
       THEN [stabilityScore |-> NaN, ratingVolatility |-> NaN,
             isContrarian |-> FALSE, contrarianScore |-> NaN]
       ELSE [stabilityScore |-> StabilityPct(n, D),
             ratingVolatility |-> VolatilityPct(n, D),
             isContrarian |-> (S1 < 7 * n \/ VolatilityPct(n, D) > 60),
             contrarianScore |-> (201 * n - 20 * S1) \div (2 * n)]

calculateTasteProfile(es) ==
    LET ratedFilms == SelectSeq(es, LAMBDA e : e.Rating # NullRating)
        ratings == RatingsOf(ratedFilms)
        n == Len(ratings)
        S1 == Sum(ratings)
        D == n * SumSquares(ratings) - S1 * S1
    IN IF n < 5 THEN DefaultTasteProfile
       ELSE IF \E i \in 1..n : ratings[i] = NaNRating
       THEN \* mean, variance and stdDev are NaN; Math.min(NaN, 1) is NaN
            [stabilityScore |-> NaN, ratingVolatility |-> NaN,
             isContrarian |-> FALSE, contrarianScore |-> NaN]
       ELSE [stabilityScore |-> StabilityPct(n, D),
             ratingVolatility |-> VolatilityPct(n, D),
             isContrarian |-> (S1 < 7 * n \/ D > 9 * n * n),
             contrarianScore |-> (201 * n - 20 * S1) \div (2 * n)]

-----------------------------------------------------------------------------
(* classifyArchetype *)

\* stats.rewatches / stats.totalFilms >= 0.3; 0/0 is NaN, r/0 is Infinity
RewatchRatioAtLeast30(stats) ==
    IF stats.totalFilms = 0 THEN stats.rewatches > 0
    ELSE 10 * stats.rewatches >= 3 * stats.totalFilms

\* const rewatchRatio = stats.rewatches / stats.totalFilms is NaN (0 / 0)
RewatchRatioIsNaN(stats) == stats.totalFilms = 0 /\ stats.rewatches = 0

\* Math.round(rewatchRatio * 100) of the evidence text
RewatchRatioPct(stats) ==
    IF stats.totalFilms = 0 THEN NaN
    ELSE PctRound(stats.rewatches, stats.totalFilms)

Archetypes(stats, tasteProfile) ==
    <<[id |-> "marathoner", evidence |-> <<stats.totalFilms, stats.totalHours>>],
      [id |-> "comfort-rewinder", evidence |-> <<stats.rewatches, RewatchRatioPct(stats)>>],
      [id |-> "chaos-curator", evidence |-> <<tasteProfile.ratingVolatility>>],
      [id |-> "prestige-purist", evidence |-> <<stats.avgRating>>],
      [id |-> "emotional-explorer", evidence |-> <<>>]>>

classifyArchetype_ratioFirst(es, stats) ==
    LET tasteProfile == calculateTasteProfile(es)
        archetypes == Archetypes(stats, tasteProfile)
    IN IF RewatchRatioAtLeast30(stats) THEN archetypes[2]
       ELSE IF stats.totalFilms >= 100 THEN archetypes[1]
       ELSE IF Gt(tasteProfile.ratingVolatility, 50) THEN archetypes[3]
       ELSE IF Ge(stats.avgRating, 400) THEN archetypes[4]
       ELSE archetypes[5]

classifyArchetype(es, stats) ==
    LET tasteProfile == calculateTasteProfile(es)
        archetypes == Archetypes(stats, tasteProfile)
    IN IF stats.totalFilms >= 100 THEN archetypes[1]
       ELSE IF RewatchRatioAtLeast30(stats) THEN archetypes[2]
       ELSE IF Gt(tasteProfile.ratingVolatility, 50) THEN archetypes[3]
       ELSE IF Ge(stats.avgRating, 400) THEN archetypes[4]
       ELSE archetypes[5]

-----------------------------------------------------------------------------
(* parseCSV, calculateDistribution, getHighlyRatedFilms *)

\* parseFloat(String(entry.Rating)) on the rating texts of the model, in
\* half stars; a text that starts with no number gives NaN
ParseFloat(text) ==
    CASE text = "5" -> 10
      [] text = "4.5" -> 9
      [] text = "4" -> 8
      [] text = "3" -> 6
      [] text = "2.5" -> 5
      [] text = "1.5" -> 3
      [] text = "1" -> 2
      [] OTHER -> NaNRating

\* parseInt(String(entry.Year)) on the year texts of the model
ParseInt(text) ==
    CASE text = "1999" -> 1999
      [] text = "2024" -> 2024
      [] OTHER -> NaN

\* result.data.map(entry => ({...entry, Rating: ..., Year: ...})) over the
\* rows Papa.parse yields (one record per data row, keyed by header); an
\* empty text and a missing field are falsy
parseCSV(rows) ==
    [i \in 1..Len(rows) |->
        [rows[i] EXCEPT
            !.Rating = IF rows[i].Rating \in {"", Undefined} THEN NullRating
                       ELSE ParseFloat(rows[i].Rating),
            !.Year = IF rows[i].Year \in {"", Undefined} THEN 0
                     ELSE ParseInt(rows[i].Year)]]

\* String.prototype.trim on the header texts of the model
Trim(text) ==
    CASE text = " Name " -> "Name"
      [] text = " Rating " -> "Rating"
      [] text = " Year " -> "Year"
      [] OTHER -> text

\* Papa.parse(csvContent, {header: true, skipEmptyLines: true,
\* transformHeader: h => h.trim()}).data for a csv held as its header cells
\* and the cells of its non-empty data lines: each line becomes a record
\* keyed by the trimmed header cells.  The csv files of the model have Name,
\* Rating and Year columns under distinct headers; a field no header names
\* is missing from the record (undefined; an unparseable date for Date).
FieldOf(header, line, field) ==
    LET at == {k \in 1..Len(header) : Trim(header[k]) = field}
    IN IF at = {} THEN Undefined ELSE line[CHOOSE k \in at : TRUE]

PapaParse(csv) ==
    [i \in 1..Len(csv.rows) |->
        [URI |-> Undefined, Date |-> BadDate,
         Name |-> FieldOf(csv.header, csv.rows[i], "Name"),
         Year |-> FieldOf(csv.header, csv.rows[i], "Year"),
         Rating |-> FieldOf(csv.header, csv.rows[i], "Rating"),
         Rewatch |-> Undefined]]

\* date.getDay(): 0 is Sunday
MonthOffsets == <<0, 3, 2, 5, 0, 3, 5, 1, 4, 6, 2, 4>>
GetDay(date) ==
    LET y == IF date.m < 3 THEN date.y - 1 ELSE date.y
    IN (y + (y \div 4) - (y \div 100) + (y \div 400) + MonthOffsets[date.m] + date.d) % 7

MonthNames == <<"Jan", "Feb", "Mar", "Apr", "May", "Jun", "Jul", "Aug", "Sep", "Oct",
                "Nov", "Dec">>
DayNames == <<"Sunday", "Monday", "Tuesday", "Wednesday", "Thursday", "Friday",
              "Saturday">>

\* new Date(text) of a parseable text: a year alone is its 1 January
CalendarDate(date) == IF date.m = 0 THEN [date EXCEPT !.m = 1, !.d = 1] ELSE date

calculateDistribution_lastBusiest(es) ==
    LET dated == SelectSeq(es, DateParses)
        monthly == [m \in 1..12 |->
                        Len(SelectSeq(dated, LAMBDA e : CalendarDate(e.Date).m = m))]
        weekly == [d \in 1..7 |->
                        Len(SelectSeq(dated, LAMBDA e : GetDay(CalendarDate(e.Date)) + 1 = d))]
        busiestMonthNum == SortDescByCount([m \in 1..12 |-> <<13 - m, monthly[13 - m]>>])[1]
        busiestDayEntry == SortDescByCount([d \in 1..7 |-> <<DayNames[8 - d], weekly[8 - d]>>])[1]
    IN [monthly |-> monthly,
        weekly |-> [d \in 1..7 |-> <<DayNames[d], weekly[d]>>],
        busiestMonth |-> MonthNames[busiestMonthNum[1]],
        busiestDay |-> busiestDayEntry[1]]

calculateDistribution(es) ==
    LET dated == SelectSeq(es, DateParses)
        monthly == [m \in 1..12 |->
                        Len(SelectSeq(dated, LAMBDA e : CalendarDate(e.Date).m = m))]
        weekly == [d \in 1..7 |->
                        Len(SelectSeq(dated, LAMBDA e : GetDay(CalendarDate(e.Date)) + 1 = d))]
        \* Object.entries: months 1..12 ascending, days in insertion order
        busiestMonthNum == SortDescByCount([m \in 1..12 |-> <<m, monthly[m]>>])[1]
        busiestDayEntry == SortDescByCount([d \in 1..7 |-> <<DayNames[d], weekly[d]>>])[1]
    IN [monthly |-> monthly,
        weekly |-> [d \in 1..7 |-> <<DayNames[d], weekly[d]>>],
        busiestMonth |-> MonthNames[busiestMonthNum[1]],
        busiestDay |-> busiestDayEntry[1]]

\* (b.Rating || 0) - (a.Rating || 0)
RatingOrZero(e) == IF e.Rating \in {NullRating, NaNRating} THEN 0 ELSE e.Rating

getHighlyRatedFilms_strictlyAbove(es, minRating) ==
    LET rated == SelectSeq(es, LAMBDA e : e.Rating # NullRating /\ Gt(e.Rating, minRating))
        sorted == SortDescByCount([i \in 1..Len(rated) |-> <<rated[i], RatingOrZero(rated[i])>>])
        top == Slice(sorted, 6)
    IN [i \in 1..Len(top) |->
            [name |-> top[i][1].Name, rating |-> top[i][1].Rating, year |-> top[i][1].Year]]

\* filter(rating >= minRating).sort(descending, stable).slice(0, 6).map(...)
getHighlyRatedFilms(es, minRating) ==
    LET rated == SelectSeq(es, LAMBDA e : e.Rating # NullRating /\ Ge(e.Rating, minRating))
        sorted == SortDescByCount([i \in 1..Len(rated) |-> <<rated[i], RatingOrZero(rated[i])>>])
        top == Slice(sorted, 6)
    IN [i \in 1..Len(top) |->
            [name |-> top[i][1].Name, rating |-> top[i][1].Rating, year |-> top[i][1].Year]]

\* The minRating parameter's default (4.5) and the argument left out
DefaultMinRating == 9
Omitted == -1

-----------------------------------------------------------------------------
(* findMostWatchedDay *)

\* A date text is a calendar date (2024-01-05), with or without a time
\* component after 'T', or a year alone (2024), which new Date parses too
WithTime(date) == [date EXCEPT !.time = TRUE]
YearOnly(y) == [valid |-> TRUE, y |-> y, m |-> 0, d |-> 0, time |-> FALSE]

\* entry.Date.split('T')[0]
DateOnly(date) == [date EXCEPT !.time = FALSE]

\* date: null
NullDate == [valid |-> FALSE, y |-> -1, m |-> 0, d |-> 0, time |-> FALSE]

\* A property key that is the canonical text of an integer: the year alone
IsIntegerKey(date) == date.valid /\ date.m = 0

\* The keys of dayMap in the order they were first set
DayKeys(es) ==
    LET firsts == SelectSeq([i \in 1..Len(es) |-> i],
                            LAMBDA i : \A j \in 1..(i - 1) :
                                            DateOnly(es[j].Date) # DateOnly(es[i].Date))
    IN [k \in 1..Len(firsts) |-> DateOnly(es[firsts[k]].Date)]

\* Ascending order of a sequence of integer-like keys
RECURSIVE SortKeysAscending(_)
SortKeysAscending(keys) ==
    IF keys = <<>> THEN <<>>
    ELSE LET least == CHOOSE k \in 1..Len(keys) : \A z \in 1..Len(keys) : keys[k].y <= keys[z].y
         IN <<keys[least]>> \o
            SortKeysAscending(SelectSeq(keys, LAMBDA key : key # keys[least]))

\* Object.entries(dayMap): the integer-like keys in ascending numeric order,
\* then the other keys in the order they were set, each with the names
\* pushed to it and their number
DayMapEntries(es) ==
    LET keys == SortKeysAscending(SelectSeq(DayKeys(es), IsIntegerKey))
                    \o SelectSeq(DayKeys(es), LAMBDA key : ~IsIntegerKey(key))
    IN [k \in 1..Len(keys) |->
            LET films == SelectSeq(es, LAMBDA e : DateOnly(e.Date) = keys[k])
            IN <<[date |-> keys[k], films |-> [i \in 1..Len(films) |-> films[i].Name]],
                 Len(films)>>]

findMostWatchedDay(es) ==
    LET sorted == SortDescByCount(DayMapEntries(es))
    IN IF Len(sorted) = 0 THEN [date |-> NullDate, count |-> 0, films |-> <<>>]
       ELSE [date |-> sorted[1][1].date, count |-> Len(sorted[1][1].films),
             films |-> sorted[1][1].films]

-----------------------------------------------------------------------------
(* parseCSVLine (FileUpload) *)

Quote == "\""
Comma == ","

\* The loop of parseCSVLine from character i on, with the loop's variables
RECURSIVE ParseLineFrom(_, _, _, _, _)
ParseLineFrom(line, i, current, inQuotes, fields) ==
    IF i > Len(line) THEN Append(fields, current)
    ELSE IF line[i] = Quote
         THEN ParseLineFrom(line, i + 1, current, ~inQuotes, fields)
    ELSE IF line[i] = Comma /\ ~inQuotes
         THEN ParseLineFrom(line, i + 1, <<>>, inQuotes, Append(fields, current))
    ELSE ParseLineFrom(line, i + 1, Append(current, line[i]), inQuotes, fields)

RECURSIVE SplitAtCommasFrom(_, _, _, _)
SplitAtCommasFrom(line, i, current, fields) ==
    IF i > Len(line) THEN Append(fields, current)
    ELSE IF line[i] = Quote THEN SplitAtCommasFrom(line, i + 1, current, fields)
    ELSE IF line[i] = Comma
         THEN SplitAtCommasFrom(line, i + 1, <<>>, Append(fields, current))
    ELSE SplitAtCommasFrom(line, i + 1, Append(current, line[i]), fields)

parseCSVLine_everyComma(line) == SplitAtCommasFrom(line, 1, <<>>, <<>>)

parseCSVLine(line) == ParseLineFrom(line, 1, <<>>, FALSE, <<>>)

-----------------------------------------------------------------------------
(* The analytics operations applied to bounded inputs *)

Idle == "idle"
None == "none"

\* entries is a list of at most max rows over the field values in `dates`,
\* `names`, `ratings`, `marks`, row i carrying URI i
EntriesUpTo(max, dates, names, ratings, marks) ==
    \E n \in 0..max : \E f \in [1..n -> dates \X names \X ratings \X marks] :
        entries = [i \in 1..n |-> DiaryEntry(i, f[i][1], f[i][2], f[i][3], f[i][4])]

\* a rows dated in year ya followed by b rows dated in year yb
TwoYearDiary(ya, a, yb, b) ==
    [i \in 1..(a + b) |->
        DiaryEntry(i, IF i <= a THEN DateOf(ya, 1, 1) ELSE DateOf(yb, 1, 1), "A",
                   NullRating, Undefined)]

\* n rows of which the first r are marked as rewatches
BulkDiary(n, r) ==
    [i \in 1..n |->
        DiaryEntry(i, DateOf(2024, 1, 1), "A", NullRating,
                   IF i <= r THEN "Yes" ELSE "No")]

\* n rated rows: the first k rated one star, the others half a star
RatedBulkDiary(n, k) ==
    [i \in 1..n |->
        DiaryEntry(i, DateOf(2024, 1, 1), "A", IF i <= k THEN 2 ELSE 1, Undefined)]

YearValues == {2023, 2024, 2025}
YearDates == {BadDate} \cup {DateOf(y, 1, 1) : y \in YearValues}

YearInputs ==
    \/ EntriesUpTo(MaxYearLen, YearDates, {"A"}, {NullRating}, {Undefined})
    \/ entries \in {TwoYearDiary(2024, 7, 2023, 9), TwoYearDiary(2023, 7, 2024, 9),
                    TwoYearDiary(2024, 9, 2023, 7)}

StatsInputs ==
    \/ EntriesUpTo(MaxStatsLen, {DateOf(2024, 1, 1)}, {"A", "B"}, {NullRating, 9},
                   {"Yes", "YES", "No", Undefined})
    \/ \E r \in 0..BulkLen : entries = BulkDiary(BulkLen, r)
    \/ EntriesUpTo(MaxAvgLen, {DateOf(2024, 1, 1)}, {"A"},
                   {NullRating, NaNRating, 1, 6, 9, 10}, {Undefined})
    \/ \E k \in 0..RatedBulkLen : entries = RatedBulkDiary(RatedBulkLen, k)

RatedInputs ==
    EntriesUpTo(MaxRatedLen, {DateOf(2024, 1, 1)}, {"A"},
                {NullRating, NaNRating, 2, 10}, {Undefined})

\* MovieStats records handed to classifyArchetype: totalFilms on both sides
\* of 100, rewatch ratios on both sides of 0.3, avgRating on both sides of 4.0
MovieStats(total, rewatches, avg) ==
    [totalFilms |-> total, uniqueFilms |-> total, totalHours |-> total * 2,
     avgRating |-> avg, rewatches |-> rewatches,
     rewatchPct |-> IF total > 0 THEN PctRound(rewatches, total) ELSE 0]

ArchetypeStats ==
    {MovieStats(c[1], c[2], avg) :
        c \in {<<0, 0>>, <<10, 2>>, <<10, 3>>, <<10, 4>>, <<99, 29>>, <<99, 30>>,
               <<100, 0>>, <<120, 10>>, <<150, 75>>},
        avg \in {300, 399, 400}}

PureInit(args) ==
    /\ arg \in args
    /\ op = None
    /\ result = None
    /\ home = Idle /\ run = Idle /\ net = Idle /\ api = Idle /\ ui = Idle

DetectTargetYear ==
    /\ op = None
    /\ op' = "detectTargetYear"
    /\ result' = detectTargetYear(entries)
    /\ UNCHANGED <<entries, arg, home, run, net, api, ui>>

FilterByYear ==
    /\ op = None
    /\ op' = "filterByYear"
    /\ result' = filterByYear(entries, arg)
    /\ UNCHANGED <<entries, arg, home, run, net, api, ui>>

CalculateStats ==
    /\ op = None
    /\ op' = "calculateStats"
    /\ result' = calculateStats(entries)
    /\ UNCHANGED <<entries, arg, home, run, net, api, ui>>

ClassifyArchetype ==
    /\ op = None
    /\ op' = "classifyArchetype"
    /\ result' = classifyArchetype(entries, arg)
    /\ UNCHANGED <<entries, arg, home, run, net, api, ui>>

\* classifyArchetype(entries, stats) with the stats calculateStats returned
\* for the same entries; the locals it computes are kept beside its result
ClassifyStats ==
    /\ op = "calculateStats"
    /\ op' = "classifyArchetype"
    /\ result' = [stats |-> result,
                  rewatchRatioIsNaN |-> RewatchRatioIsNaN(result),
                  archetypes |-> Archetypes(result, calculateTasteProfile(entries)),
                  archetype |-> classifyArchetype(entries, result)]
    /\ UNCHANGED <<entries, arg, home, run, net, api, ui>>

\* parseCSV applied to the csv content held in arg
ParseCSV ==
    /\ op = None
    /\ op' = "parseCSV"
    /\ entries' = parseCSV(PapaParse(arg))
    /\ UNCHANGED <<arg, result, home, run, net, api, ui>>

\* calculateTasteProfile applied to what parseCSV returned
CalculateTasteProfile ==
    /\ op = "parseCSV"
    /\ op' = "calculateTasteProfile"
    /\ result' = calculateTasteProfile(entries)
    /\ UNCHANGED <<entries, arg, home, run, net, api, ui>>

\* csv contents: a Name and a Rating column under exact headers with up to
\* MaxTasteLen lines; the spec's scenario (ratings 5, 5, 1, 5, 1); and Name,
\* Rating and Year columns in every order, each header exact, padded or in
\* lower case, with up to MaxCsvRows lines
HeaderForms == {"exact", "padded", "lower"}
HeaderText(column, form) ==
    CASE form = "exact" -> column
      [] form = "padded" ->
            (CASE column = "Name" -> " Name " [] column = "Rating" -> " Rating "
               [] OTHER -> " Year ")
      [] OTHER ->
            (CASE column = "Name" -> "name" [] column = "Rating" -> "rating"
               [] OTHER -> "year")
Columns == <<"Name", "Rating", "Year">>

CsvInputs ==
    \/ \E n \in 0..MaxTasteLen : \E f \in [1..n -> {"", "abc", "1.5", "2.5", "5"}] :
            arg = [header |-> <<"Name", "Rating">>,
                   rows |-> [i \in 1..n |-> <<"A", f[i]>>]]
    \/ arg = [header |-> <<"Name", "Rating">>,
              rows |-> <<<<"A", "5">>, <<"B", "5">>, <<"C", "1">>, <<"D", "5">>,
                         <<"E", "1">>>>]
    \/ \E n \in 0..MaxCsvRows : \E order \in Permutations(1..3) :
        \E form \in [1..3 -> HeaderForms] :
        \E cells \in [1..n -> {"A"} \X {"", "abc", "5"} \X {"", "1999"}] :
            arg = [header |-> [k \in 1..3 |-> HeaderText(Columns[order[k]], form[k])],
                   rows |-> [i \in 1..n |-> [k \in 1..3 |-> cells[i][order[k]]]]]

InitCsv ==
    /\ CsvInputs
    /\ entries = <<>> /\ op = None /\ result = None
    /\ home = Idle /\ run = Idle /\ net = Idle /\ api = Idle /\ ui = Idle
NextCsv == ParseCSV \/ CalculateTasteProfile
SpecCsv == InitCsv /\ [][NextCsv]_vars

\* parseCSVLine applied to the line held in arg
ParseCSVLine ==
    /\ op = None
    /\ op' = "parseCSVLine"
    /\ result' = parseCSVLine(arg)
    /\ UNCHANGED <<entries, arg, home, run, net, api, ui>>

\* Lines over a letter, the comma and the double quote
LineChars == {"a", Comma, Quote}
InitLine ==
    /\ \E n \in 0..MaxLineLen : arg \in [1..n -> LineChars]
    /\ entries = <<>> /\ op = None /\ result = None
    /\ home = Idle /\ run = Idle /\ net = Idle /\ api = Idle /\ ui = Idle
NextLine == ParseCSVLine
SpecLine == InitLine /\ [][NextLine]_vars

\* getHighlyRatedFilms(entries) and getHighlyRatedFilms(entries, minRating)
GetHighlyRatedFilms ==
    /\ op = None
    /\ op' = "getHighlyRatedFilms"
    /\ result' = getHighlyRatedFilms(entries, IF arg = Omitted THEN DefaultMinRating ELSE arg)
    /\ UNCHANGED <<entries, arg, home, run, net, api, ui>>

FindMostWatchedDay ==
    /\ op = None
    /\ op' = "findMostWatchedDay"
    /\ result' = findMostWatchedDay(entries)
    /\ UNCHANGED <<entries, arg, home, run, net, api, ui>>

CalculateDistribution ==
    /\ op = None
    /\ op' = "calculateDistribution"
    /\ result' = calculateDistribution(entries)
    /\ UNCHANGED <<entries, arg, home, run, net, api, ui>>

\* Entries with one title each: lists over null, NaN and numeric ratings,
\* lists of LongHighLen entries rated 4, 4.5 or 5, and unrated lists over
\* two days, one of them also with a time, two years alone and an
\* unparseable date text
Titles == <<"F1", "F2", "F3", "F4", "F5", "F6", "F7", "F8", "F9">>
FilmDates ==
    {DateOf(2024, 1, 5), WithTime(DateOf(2024, 1, 5)), DateOf(2024, 3, 1),
     DateOf(2024, 3, 4), DateOf(2023, 12, 31), YearOnly(2024), YearOnly(2023), BadDate}
FilmInputs ==
    \/ \E n \in 0..MaxHighLen : \E f \in [1..n -> {NullRating, NaNRating, 8, 9, 10}] :
            entries = [i \in 1..n |->
                        DiaryEntry(i, DateOf(2024, 1, 5), Titles[i], f[i], Undefined)]
    \/ \E f \in [1..LongHighLen -> {8, 9, 10}] :
            entries = [i \in 1..LongHighLen |->
                        DiaryEntry(i, DateOf(2024, 1, 5), Titles[i], f[i], Undefined)]
    \/ \E n \in 0..MaxDayLen : \E f \in [1..n -> FilmDates] :
            entries = [i \in 1..n |-> DiaryEntry(i, f[i], Titles[i], NullRating, Undefined)]

InitFilms == FilmInputs /\ PureInit({Omitted, 8, 10})
NextFilms == GetHighlyRatedFilms \/ FindMostWatchedDay \/ CalculateDistribution
SpecFilms == InitFilms /\ [][NextFilms]_vars

-----------------------------------------------------------------------------
(* The analytics operations applied in turn to one entry array *)

OperationNames ==
    {"detectTargetYear", "filterByYear", "calculateStats", "calculateDistribution",
     "getHighlyRatedFilms", "findMostWatchedDay", "calculateTasteProfile",
     "classifyArchetype"}

\* What the named operation returns for the array es; filterByYear is given
\* the detected year and classifyArchetype the calculated stats, as in
\* handleFileSelect
ResultOf(name, es) ==
    CASE name = "detectTargetYear" -> detectTargetYear(es)
      [] name = "filterByYear" -> filterByYear(es, detectTargetYear(es))
      [] name = "calculateStats" -> calculateStats(es)
      [] name = "calculateDistribution" -> calculateDistribution(es)
      [] name = "getHighlyRatedFilms" -> getHighlyRatedFilms(es, DefaultMinRating)
      [] name = "findMostWatchedDay" -> findMostWatchedDay(es)
      [] name = "calculateTasteProfile" -> calculateTasteProfile(es)
      [] name = "classifyArchetype" -> classifyArchetype(es, calculateStats(es))

\* The array es ordered in place by rating, as es.sort(...) would leave it
SortedByRating(es) ==
    LET sorted == SortDescByCount([i \in 1..Len(es) |-> <<es[i], RatingOrZero(es[i])>>])
    IN [i \in 1..Len(es) |-> sorted[i][1]]

EntriesAfter_sortsReceiver(name, es) ==
    IF name = "getHighlyRatedFilms" THEN SortedByRating(es) ELSE es

\* The array es after the named operation returned.  The operations read
\* entries with forEach, filter, map and length, which leave the array and
\* its objects as they are; sort, which orders its receiver in place, is
\* called on the new array of Object.entries (detectTargetYear,
\* calculateDistribution, findMostWatchedDay) or of entries.filter
\* (getHighlyRatedFilms), and no callback assigns to a field of an entry.
EntriesAfter(name, es) ==
    CASE name \in {"detectTargetYear", "calculateDistribution", "findMostWatchedDay"} -> es
      [] name = "getHighlyRatedFilms" -> es
      [] name \in {"filterByYear", "calculateStats", "calculateTasteProfile",
                   "classifyArchetype"} -> es

\* One call of the named operation on the array; run is the log of the
\* calls made so far with what each returned
Apply(name) ==
    /\ Len(run) < MaxCalls
    /\ op' = name
    /\ result' = ResultOf(name, entries)
    /\ entries' = EntriesAfter(name, entries)
    /\ run' = Append(run, [op |-> name, result |-> ResultOf(name, entries)])
    /\ UNCHANGED <<arg, home, net, api, ui>>

AnalyticsInputs ==
    \E n \in 0..MaxPureLen :
        \E f \in [1..n -> {DateOf(2024, 1, 5), DateOf(2023, 3, 4)} \X {9, 10}] :
            entries = [i \in 1..n |-> DiaryEntry(i, f[i][1], Titles[i], f[i][2], Undefined)]

InitAnalytics ==
    /\ AnalyticsInputs
    /\ arg = None /\ op = None /\ result = None /\ run = <<>>
    /\ home = Idle /\ net = Idle /\ api = Idle /\ ui = Idle
NextAnalytics ==
    \/ Apply("detectTargetYear")
    \/ Apply("filterByYear")
    \/ Apply("calculateStats")
    \/ Apply("calculateDistribution")
    \/ Apply("getHighlyRatedFilms")
    \/ Apply("findMostWatchedDay")
    \/ Apply("calculateTasteProfile")
    \/ Apply("classifyArchetype")
SpecAnalytics == InitAnalytics /\ [][NextAnalytics]_vars

InitYear == YearInputs /\ PureInit(YearValues \cup {CurrentYear})
NextYear == DetectTargetYear \/ FilterByYear
SpecYear == InitYear /\ [][NextYear]_vars

InitStats == StatsInputs /\ PureInit({None})
NextStats == CalculateStats \/ ClassifyStats
SpecStats == InitStats /\ [][NextStats]_vars

InitArchetype == RatedInputs /\ PureInit(ArchetypeStats)
NextArchetype == ClassifyArchetype
SpecArchetype == InitArchetype /\ [][NextArchetype]_vars

-----------------------------------------------------------------------------
(* The persona endpoint: POST /api/analyze-reviews *)

\* A generated text, as the tokens that decide how it is parsed: "p" a run
\* of prose without braces, "{" and "}" the braces, "k" well-formed JSON
\* members (the persona's title, summary and signals).
TextTokens == {"p", "{", "}", "k"}
Texts == UNION {[1..n -> TextTokens] : n \in 0..MaxTextLen}

\* text.match(/\{[\s\S]*\}/): from the first "{" to the last "}" (greedy);
\* null, held as the empty text, when no "}" follows a "{"
JsonMatch(text) ==
    LET opens == {i \in 1..Len(text) : text[i] = "{"}
        first == CHOOSE i \in opens : \A j \in opens : i <= j
        closes == {i \in 1..Len(text) : text[i] = "}" /\ i > first}
        last == CHOOSE i \in closes : \A j \in closes : i >= j
    IN IF opens = {} THEN <<>>
       ELSE IF closes = {} THEN <<>>
       ELSE SubSeq(text, first, last)

\* A ReviewPersona; NoPersona where there is none
NoPersona == [title |-> None, summary |-> None, signals |-> 0]
ModelPersona == [title |-> "generated", summary |-> "generated", signals |-> 3]
EmptyObject == [title |-> Undefined, summary |-> Undefined, signals |-> 0]

\* JSON.parse of the matched text: an object, or a SyntaxError (ok = FALSE)
JsonParse(m) ==
    IF m = <<"{", "k", "}">> THEN [ok |-> TRUE, value |-> ModelPersona]
    ELSE IF m = <<"{", "}">> THEN [ok |-> TRUE, value |-> EmptyObject]
    ELSE [ok |-> FALSE, value |-> NoPersona]

\* The fixed fallback persona ('The Cinema Enthusiast', three signals)
FallbackPersona ==
    [title |-> "The Cinema Enthusiast", summary |-> "fallback", signals |-> 3]

\* NextResponse.json(body, {status}); NoResponse while there is none
NoResponse == [status |-> 0, error |-> None, persona |-> NoPersona]
ErrorResponse(status, message) ==
    [status |-> status, error |-> message, persona |-> NoPersona]
PersonaResponse(persona) == [status |-> 200, error |-> None, persona |-> persona]

\* reviews.filter(r => r.review && r.review.length > 10); a review is held
\* as the length of its text
ValidReviews(reviews) == SelectSeq(reviews, LAMBDA len : len > 10)

\* A request body: unreadable (request.json() throws), without a reviews
\* member, or with a list of reviews
ReviewLists == UNION {[1..n -> {0, 10, 11}] : n \in 0..MaxReviews}
RequestWith(reviews) == [readable |-> TRUE, hasReviews |-> TRUE, reviews |-> reviews]
NoRequest == [readable |-> FALSE, hasReviews |-> FALSE, reviews |-> <<>>]
Requests ==
    {NoRequest, [readable |-> TRUE, hasReviews |-> FALSE, reviews |-> <<>>]}
    \cup {RequestWith(reviews) : reviews \in ReviewLists}

\* The handler up to `await model.generateContent(prompt)`: the response it
\* returns early, or NoResponse when it goes on to call the service
AnalyzeReviewsEarly(request, apiKey) ==
    IF ~request.readable THEN ErrorResponse(500, "Failed to analyze reviews")
    ELSE IF ~request.hasReviews THEN ErrorResponse(400, "No reviews provided")
    ELSE IF Len(request.reviews) = 0 THEN ErrorResponse(400, "No reviews provided")
    ELSE IF ~apiKey THEN ErrorResponse(500, "Gemini API key not configured")
    ELSE IF Len(ValidReviews(request.reviews)) = 0
         THEN ErrorResponse(400, "No valid reviews to analyze")
    ELSE NoResponse

\* What the generation service does with the prompt: it rejects
\* (generateContent throws), it resolves but response.text() throws, or it
\* yields a text
NoGeneration == [kind |-> None, text |-> <<>>]
Generations ==
    {[kind |-> k, text |-> <<>>] : k \in {"rejects", "textThrows"}}
    \cup {[kind |-> "text", text |-> t] : t \in Texts}

\* The handler from the service's answer on
AnalyzeReviewsFinish(generation) ==
    IF generation.kind # "text"
    THEN \* the outer catch
         ErrorResponse(500, "Failed to analyze reviews")
    ELSE LET jsonMatch == JsonMatch(generation.text)
             parsed == IF jsonMatch = <<>> THEN [ok |-> FALSE, value |-> NoPersona]
                       ELSE JsonParse(jsonMatch)
         IN IF ~parsed.ok THEN PersonaResponse(FallbackPersona)
            ELSE PersonaResponse(parsed.value)

ApiPost ==
    /\ api.pos = "listening"
    /\ \E request \in Requests :
        LET early == AnalyzeReviewsEarly(request, api.apiKey)
        IN api' = IF early = NoResponse
                  THEN [api EXCEPT !.pos = "generating", !.request = request]
                  ELSE [api EXCEPT !.pos = "responded", !.request = request,
                                   !.response = early]
    /\ UNCHANGED <<entries, arg, op, result, home, run, net, ui>>

ApiGenerationSettles ==
    /\ api.pos = "generating"
    /\ \E generation \in Generations :
        api' = [api EXCEPT !.pos = "responded", !.generation = generation,
                           !.response = AnalyzeReviewsFinish(generation)]
    /\ UNCHANGED <<entries, arg, op, result, home, run, net, ui>>

\* The endpoint serves the next request.
ApiNextRequest ==
    /\ api.pos = "responded"
    /\ api' = [api EXCEPT !.pos = "listening", !.request = NoRequest,
                          !.generation = NoGeneration, !.response = NoResponse]
    /\ UNCHANGED <<entries, arg, op, result, home, run, net, ui>>

InitPersona ==
    /\ api \in {[pos |-> "listening", apiKey |-> key, request |-> NoRequest,
                 generation |-> NoGeneration, response |-> NoResponse] :
                key \in BOOLEAN}
    /\ entries = <<>> /\ arg = None /\ op = None /\ result = None
    /\ home = Idle /\ run = Idle /\ net = Idle /\ ui = Idle
NextPersona == ApiPost \/ ApiGenerationSettles \/ ApiNextRequest
SpecPersona == InitPersona /\ [][NextPersona]_vars

-----------------------------------------------------------------------------
(* fetchTMDBData and assignGenreColors *)

NoPoster == "null"

\* GENRE_COLORS.length
GenreColorCount == 8

\* Index of the first largest element (indexOf(Math.max(...)))
FirstMaxIndex(s) ==
    CHOOSE i \in 1..Len(s) :
        /\ \A j \in 1..Len(s) : s[j] <= s[i]
        /\ \A j \in 1..(i - 1) : s[j] < s[i]

assignGenreColors_unadjusted(genres, totalFilms) ==
    LET topGenres == Slice(genres, 5)
        topGenreTotal == Sum([i \in 1..Len(topGenres) |-> topGenres[i].count])
        rounded == [i \in 1..Len(topGenres) |-> PctRound(topGenres[i].count, topGenreTotal)]
    IN [i \in 1..Len(topGenres) |->
            [genre |-> topGenres[i].genre, count |-> topGenres[i].count,
             percentage |-> rounded[i], color |-> (i - 1) % GenreColorCount]]

assignGenreColors(genres, totalFilms) ==
    LET topGenres == Slice(genres, 5)
        topGenreTotal == Sum([i \in 1..Len(topGenres) |-> topGenres[i].count])
        rounded == [i \in 1..Len(topGenres) |-> PctRound(topGenres[i].count, topGenreTotal)]
        sum == Sum(rounded)
        adjusted == IF sum # 100 /\ Len(rounded) > 0
                    THEN [rounded EXCEPT ![FirstMaxIndex(rounded)] = @ + (100 - sum)]
                    ELSE rounded
    IN [i \in 1..Len(topGenres) |->
            [genre |-> topGenres[i].genre, count |-> topGenres[i].count,
             percentage |-> adjusted[i], color |-> (i - 1) % GenreColorCount]]

\* assignGenreColors applied to the list of genre counts held in arg
AssignGenreColors ==
    /\ op = None
    /\ op' = "assignGenreColors"
    /\ result' = assignGenreColors(arg, Len(entries))
    /\ UNCHANGED <<entries, arg, home, run, net, api, ui>>

GenreLabels ==
    <<"Drama", "Comedy", "Horror", "Action", "Romance", "Thriller", "Crime", "Mystery">>

InitGenres ==
    /\ \E n \in 0..MaxGenreLen : \E f \in [1..n -> 1..MaxGenreCount] :
            arg = [i \in 1..n |-> [genre |-> GenreLabels[i], count |-> f[i]]]
    /\ entries = <<>> /\ op = None /\ result = None
    /\ home = Idle /\ run = Idle /\ net = Idle /\ api = Idle /\ ui = Idle
NextGenres == AssignGenreColors
SpecGenres == InitGenres /\ [][NextGenres]_vars

\* The answer to fetch('/api/tmdb'): none yet, a rejected fetch, a response
\* that is not ok, an ok response whose body is not {results: [...]}, or an
\* ok response with results
NoAnswer == [kind |-> None, results |-> <<>>]
FailedAnswers == {[kind |-> k, results |-> <<>>] : k \in {"rejects", "notOk", "malformed"}}

\* The batch endpoint's result for one title, by what the catalogue holds
TmdbLookup(catalog, name) ==
    IF catalog = "miss" THEN [name |-> name, posterUrl |-> NoPoster, genres |-> <<>>]
    ELSE CASE name = "A" ->
                [name |-> name, posterUrl |-> "posterA", genres |-> <<"Drama", "Comedy">>]
           [] name = "B" ->
                [name |-> name, posterUrl |-> NoPoster, genres |-> <<"Comedy">>]
           [] OTHER ->
                [name |-> name, posterUrl |-> "posterC", genres |-> <<"Horror", "Comedy">>]

\* movies.slice(0, 20), one result per title in request order
TmdbBatchResults(catalog, movies) ==
    LET limited == Slice(movies, 20)
    IN [i \in 1..Len(limited) |-> TmdbLookup(catalog, limited[i].name)]

\* highlyRated.slice(0, 4) followed by up to 16 entries not among them
MoviesToFetch(es, highlyRated) ==
    LET top == Slice(highlyRated, 4)
        others == Slice(SelectSeq(es, LAMBDA e :
                            ~\E i \in 1..Len(highlyRated) : highlyRated[i].name = e.Name), 16)
    IN [i \in 1..Len(top) |-> [name |-> top[i].name, year |-> top[i].year]]
       \o [i \in 1..Len(others) |-> [name |-> others[i].Name, year |-> others[i].Year]]

\* results.forEach(result => result.genres.forEach(...)): every genre label
\* of every result, in order
RECURSIVE AllGenres(_)
AllGenres(results) ==
    IF results = <<>> THEN <<>> ELSE Head(results).genres \o AllGenres(Tail(results))

\* genreCounts[genre] = (genreCounts[genre] || 0) + 1, then Object.entries:
\* string keys come in insertion order
RECURSIVE GenreCounts(_)
GenreCounts(labels) ==
    IF labels = <<>> THEN <<>>
    ELSE LET before == GenreCounts(SubSeq(labels, 1, Len(labels) - 1))
             g == labels[Len(labels)]
             at == {i \in 1..Len(before) : before[i][1] = g}
         IN IF at = {} THEN Append(before, <<g, 1>>)
            ELSE [i \in 1..Len(before) |->
                    IF i \in at THEN <<g, before[i][2] + 1>> ELSE before[i]]

\* results.find(r => r.name === movie.name)?.posterUrl || null
PosterFor(results, name) ==
    LET at == {i \in 1..Len(results) : results[i].name = name}
    IN IF at = {} THEN NoPoster
       ELSE results[CHOOSE i \in at : \A j \in at : i <= j].posterUrl

WithPoster(movie, posterUrl) ==
    [name |-> movie.name, rating |-> movie.rating, year |-> movie.year,
     posterUrl |-> posterUrl]

fetchTMDBData_rethrows(es, highlyRated, totalFilms, answer) ==
    LET top == Slice(highlyRated, 4)
    IN IF answer \in FailedAnswers
       THEN [threw |-> TRUE, topMoviesWithPosters |-> <<>>, genreDistribution |-> <<>>]
       ELSE LET results == answer.results
                sortedGenres == Slice(SortDescByCount(GenreCounts(AllGenres(results))), 5)
            IN [threw |-> FALSE,
                topMoviesWithPosters |->
                    [i \in 1..Len(top) |-> WithPoster(top[i], PosterFor(results, top[i].name))],
                genreDistribution |->
                    assignGenreColors(
                        [i \in 1..Len(sortedGenres) |->
                            [genre |-> sortedGenres[i][1], count |-> sortedGenres[i][2]]],
                        totalFilms)]

\* fetchTMDBData given the answer its fetch got; threw is whether the call
\* itself rejects (every failure is caught inside it)
fetchTMDBData(es, highlyRated, totalFilms, answer) ==
    LET top == Slice(highlyRated, 4)
    IN IF answer \in FailedAnswers
       THEN \* the catch: console.error, empty data
            [threw |-> FALSE,
             topMoviesWithPosters |-> [i \in 1..Len(top) |-> WithPoster(top[i], NoPoster)],
             genreDistribution |-> <<>>]
       ELSE LET results == answer.results
                sortedGenres == Slice(SortDescByCount(GenreCounts(AllGenres(results))), 5)
            IN [threw |-> FALSE,
                topMoviesWithPosters |->
                    [i \in 1..Len(top) |-> WithPoster(top[i], PosterFor(results, top[i].name))],
                genreDistribution |->
                    assignGenreColors(
                        [i \in 1..Len(sortedGenres) |->
                            [genre |-> sortedGenres[i][1], count |-> sortedGenres[i][2]]],
                        totalFilms)]

-----------------------------------------------------------------------------
(* The batch metadata endpoint: POST /api/tmdb *)

\* movies.slice(0, 20)
BatchLimit == 20

\* What TMDB does with the search for one title: the first fetch (with the
\* year when the movie has one) and the second (without the year)
TmdbOutcomes == {"rejects", "notOk", "badJson", "empty", "hit"}

\* A title that is not a well-formed string (a lone surrogate):
\* encodeURIComponent throws URIError
Unencodable == "unencodable"

MissResult(name) == [name |-> name, posterUrl |-> NoPoster, genres |-> <<>>]

\* The async callback of limitedMovies.map for one movie: encodeURIComponent
\* stands before the try block, the fetches and the reading of the body
\* inside it
LookupTitle(movie, tmdb) ==
    IF movie.name = Unencodable THEN [threw |-> TRUE, result |-> MissResult(movie.name)]
    ELSE IF tmdb.first \in {"rejects", "badJson"}
         \* catch { return { name, posterUrl: null, genres: [] } }
         THEN [threw |-> FALSE, result |-> MissResult(movie.name)]
    ELSE IF tmdb.first = "notOk" THEN [threw |-> FALSE, result |-> MissResult(movie.name)]
    ELSE IF tmdb.first = "empty" /\ movie.year # 0
         THEN IF tmdb.second \in {"rejects", "badJson"}
              THEN [threw |-> FALSE, result |-> MissResult(movie.name)]
              ELSE IF tmdb.second = "hit"
                   THEN [threw |-> FALSE, result |-> TmdbLookup("found", movie.name)]
                   \* not ok: data stays the empty first answer
                   ELSE [threw |-> FALSE, result |-> MissResult(movie.name)]
    ELSE IF tmdb.first = "empty" THEN [threw |-> FALSE, result |-> MissResult(movie.name)]
    ELSE [threw |-> FALSE, result |-> TmdbLookup("found", movie.name)]

TmdbResponse(status, error, results) ==
    [status |-> status, error |-> error, results |-> results]

\* POST: request is the parsed body with the environment's key, tmdb what
\* TMDB does for each position of the batch.  Promise.all gives the results
\* by position and rejects when a callback rejects.
tmdbPost(request, tmdb) ==
    IF ~request.apiKey THEN TmdbResponse(500, "TMDB API key not configured", <<>>)
    ELSE IF ~request.isArray \/ Len(request.movies) = 0
         THEN TmdbResponse(400, "Movies array is required", <<>>)
    ELSE LET limitedMovies == Slice(request.movies, BatchLimit)
             settled == [i \in 1..Len(limitedMovies) |-> LookupTitle(limitedMovies[i], tmdb[i])]
         IN IF \E i \in 1..Len(settled) : settled[i].threw
            THEN TmdbResponse(500, "Failed to fetch from TMDB", <<>>)
            ELSE TmdbResponse(200, None, [i \in 1..Len(settled) |-> settled[i].result])

TmdbPost ==
    /\ op = None
    /\ op' = "tmdbPost"
    /\ result' = tmdbPost(arg, net)
    /\ UNCHANGED <<entries, arg, home, run, net, api, ui>>

TmdbRequest(apiKey, isArray, movies) ==
    [apiKey |-> apiKey, isArray |-> isArray, movies |-> movies]

\* A movie's year (0 for none) with the outcomes of its searches; the second
\* search is made only for a movie with a year whose first search is empty
TmdbSearches ==
    {x \in {0, 1999} \X TmdbOutcomes \X TmdbOutcomes :
        (x[1] # 0 /\ x[2] = "empty") \/ x[3] = "hit"}

\* Batches of up to MaxBatchLen movies over every outcome, with and without
\* a year; batches of LongBatchLen movies of which one is not found; and
\* the requests without a key or an array
TmdbInputs ==
    \/ \E n \in 0..MaxBatchLen :
        \E m \in [1..n -> {"A", Unencodable} \X TmdbSearches] :
            /\ arg = TmdbRequest(TRUE, TRUE,
                                 [i \in 1..n |-> [name |-> m[i][1], year |-> m[i][2][1]]])
            /\ net = [i \in 1..n |-> [first |-> m[i][2][2], second |-> m[i][2][3]]]
    \/ \E k \in 1..LongBatchLen : \E o \in {"rejects", "empty"} :
            /\ arg = TmdbRequest(TRUE, TRUE,
                                 [i \in 1..LongBatchLen |-> [name |-> Titles[1 + (i % 9)], year |-> 0]])
            /\ net = [i \in 1..LongBatchLen |->
                        [first |-> IF i = k THEN o ELSE "hit", second |-> "hit"]]
    \/ /\ arg \in {TmdbRequest(FALSE, TRUE, <<[name |-> "A", year |-> 0]>>),
                   TmdbRequest(TRUE, FALSE, <<>>)}
       /\ net = <<[first |-> "hit", second |-> "hit"]>>

InitTmdb ==
    /\ TmdbInputs
    /\ entries = <<>> /\ op = None /\ result = None
    /\ home = Idle /\ run = Idle /\ api = Idle /\ ui = Idle
NextTmdb == TmdbPost
SpecTmdb == InitTmdb /\ [][NextTmdb]_vars

-----------------------------------------------------------------------------
(* FilmCountdown and CurtainsOpening *)

\* FilmCountdown: useState(3), useState(true), and the timer its effect has
\* armed: "step" (setCount(count - 1) after duration / 3), "finish" (after
\* 300 ms, when count is 0) or none.  The effect's cleanup clears this timer.
\* The setTimeout(onComplete, 500) started by the finish timer is kept by no
\* cleanup; those callbacks are counted beside the component.
CountdownStart == 3
CountdownUnmounted ==
    [mounted |-> FALSE, count |-> CountdownStart, isVisible |-> TRUE, timer |-> None]

\* useEffect(..., [count, duration, onComplete]): runs after mount and after
\* every render in which count or a prop has changed
CountdownEffect(c) == [c EXCEPT !.timer = IF c.count > 0 THEN "step" ELSE "finish"]

CountdownMount == CountdownEffect([CountdownUnmounted EXCEPT !.mounted = TRUE])

\* The step timer's callback, and the render and effect that follow it
CountdownStep(c) == CountdownEffect([c EXCEPT !.count = @ - 1])

\* The finish timer's callback: setIsVisible(false); setTimeout(onComplete, 500)
CountdownFinish(c) == [c EXCEPT !.isVisible = FALSE, !.timer = None]

\* CurtainsOpening: useState(true) and the timer of its effect ("open", after
\* duration); its callback starts setTimeout(onComplete, 300), kept by no
\* cleanup
CurtainsUnmounted == [mounted |-> FALSE, isAnimating |-> TRUE, timer |-> None]

\* useEffect(..., [duration, onComplete])
CurtainsEffect(c) == [c EXCEPT !.timer = "open"]

CurtainsMount == CurtainsEffect([CurtainsUnmounted EXCEPT !.mounted = TRUE])

\* The timer's callback: setIsAnimating(false); setTimeout(onComplete, 300)
CurtainsFinish(c) == [c EXCEPT !.isAnimating = FALSE, !.timer = None]

-----------------------------------------------------------------------------
(* The Home page: handleFileSelect and resetToUpload *)

\* The components Home renders below it and the callbacks waiting in timers:
\* advance is the update an auto-advance tick has queued and React has not
\* rendered yet
NoChildren ==
    [countdown |-> CountdownUnmounted, countdownPending |-> 0,
     curtains |-> CurtainsUnmounted, curtainsPending |-> 0, advance |-> FALSE]

\* Home renders after a state change (React renders nothing when no state
\* has changed): FilmCountdown is rendered in phase 'countdown' and
\* CurtainsOpening in phase 'curtains', each with a new inline onComplete,
\* so that the effect of a component that stays mounted runs again
HomeRender(u, before, after) ==
    IF after = before THEN u
    ELSE [u EXCEPT
            !.countdown = IF after.phase # "countdown" THEN CountdownUnmounted
                          ELSE IF u.countdown.mounted THEN CountdownEffect(u.countdown)
                          ELSE CountdownMount,
            !.curtains = IF after.phase # "curtains" THEN CurtainsUnmounted
                         ELSE IF u.curtains.mounted THEN CurtainsEffect(u.curtains)
                         ELSE CurtainsMount]

\* The error state: null, or the message of the Error thrown (the counts the
\* message quotes held beside it)
NoError == [message |-> None, films |-> 0, year |-> 0]
ErrorOf(message, films, year) == [message |-> message, films |-> films, year |-> year]

\* Fewest entries of the detected year a report is made from
MinFilms == 5

\* filtered.length < 5
TooFewFilms_four(filtered) == Len(filtered) < MinFilms - 1
TooFewFilms(filtered) == Len(filtered) < MinFilms

\* handleFileSelect from parseCSV to the line before `await fetchTMDBData`:
\* the Error it throws, or the values it has computed
AnalyzeDiary(rows) ==
    LET parsed == parseCSV(rows)
        year == detectTargetYear(parsed)
        filtered == filterByYear(parsed, year)
        enough == Len(parsed) # 0 /\ ~TooFewFilms(filtered)
        kept == IF enough THEN filtered ELSE <<>>
        stats == calculateStats(kept)
    IN [error |-> IF Len(parsed) = 0 THEN ErrorOf("No entries found", 0, 0)
                  ELSE IF TooFewFilms(filtered)
                       THEN ErrorOf("Only n films found for year", Len(filtered), year)
                  ELSE NoError,
        year |-> IF enough THEN year ELSE 0,
        entries |-> kept,
        stats |-> stats,
        distribution |-> calculateDistribution(kept),
        archetype |-> classifyArchetype(kept, stats),
        highlyRated |-> Slice(getHighlyRatedFilms(kept, 8), 4)]

\* WrappedData as setData receives it (username, reviews, rewatched and
\* watchlist are passed through from the upload and left out); NoData is null
WrappedData(analysis, tmdb, reviewPersona) ==
    [set |-> TRUE, entries |-> analysis.entries, year |-> analysis.year,
     stats |-> analysis.stats, distribution |-> analysis.distribution,
     archetype |-> analysis.archetype, highlyRated |-> analysis.highlyRated,
     topMoviesWithPosters |-> tmdb.topMoviesWithPosters,
     genreDistribution |-> tmdb.genreDistribution,
     reviewPersona |-> reviewPersona]
NoData ==
    [WrappedData(AnalyzeDiary(<<>>),
                 [topMoviesWithPosters |-> <<>>, genreDistribution |-> <<>>],
                 NoPersona) EXCEPT !.set = FALSE]

\* The answer to fetch('/api/analyze-reviews'): none yet, a rejected fetch,
\* a body response.json() cannot read, or the endpoint's response
NoPersonaAnswer == [kind |-> None, response |-> NoResponse]
PersonaAnswers(reviews) ==
    {[kind |-> k, response |-> NoResponse] : k \in {"rejects", "malformed"}}
    \cup {[kind |-> "response",
           response |-> LET early == AnalyzeReviewsEarly(RequestWith(reviews), key)
                        IN IF early # NoResponse THEN early
                           ELSE AnalyzeReviewsFinish(generation)] :
            key \in BOOLEAN, generation \in Generations}

\* reviewPersona after the inner try/catch: data.persona when response.ok
\* and data.persona is truthy, else undefined
ReviewPersonaOf(answer) ==
    IF /\ answer.kind = "response"
       /\ answer.response.status \in 200..299
       /\ answer.response.persona # NoPersona
    THEN answer.response.persona
    ELSE NoPersona

\* Uploaded files: diary rows as Papa.parse yields them, and the reviews of
\* the archive (a bare diary.csv has none)
RatingTexts == <<"5", "", "4.5", "abc", "4", "3", "1">>
FilmNames == <<"A", "B", "C">>
DiaryRow(y, i) ==
    [URI |-> FilmNames[(i % 3) + 1], Date |-> DateOf(y, (i % 12) + 1, i + 1),
     Name |-> FilmNames[(i % 3) + 1], Year |-> IF i % 2 = 0 THEN "1999" ELSE "2024",
     Rating |-> RatingTexts[(i % 7) + 1],
     Rewatch |-> IF i % 4 = 3 THEN "Yes" ELSE ""]
DiaryRows(y, n) == [i \in 1..n |-> DiaryRow(y, i)]
UndatedRows(n) == [i \in 1..n |-> [DiaryRow(2024, i) EXCEPT !.Date = BadDate]]
NoFile == [rows |-> <<>>, hasReviews |-> FALSE, allReviews |-> <<>>]
Files ==
    {[rows |-> rows, hasReviews |-> r.has, allReviews |-> r.list] :
        rows \in {DiaryRows(2024, a) \o DiaryRows(2023, b) :
                    a \in {0, MinFilms - 1, MinFilms, MaxFilms}, b \in {0, 2, MinFilms}}
                 \cup {UndatedRows(MinFilms)},
        r \in {[has |-> FALSE, list |-> <<>>], [has |-> TRUE, list |-> <<>>],
               [has |-> TRUE, list |-> <<5>>], [has |-> TRUE, list |-> <<11, 50>>]}}

\* What fetchTMDBData returned to the run; NoTmdbData before it has
NoTmdbData == [threw |-> FALSE, topMoviesWithPosters |-> <<>>, genreDistribution |-> <<>>]

\* The run's arguments and local constants
NoRun == [pos |-> Idle, file |-> NoFile, analysis |-> AnalyzeDiary(<<>>),
          tmdb |-> NoTmdbData]
NoNet == [tmdb |-> NoAnswer, persona |-> NoPersonaAnswer]

\* The run's last statements: setData, setPhase('countdown'), and the
\* finally block
FinishRun(reviewPersona) ==
    /\ home' = [home EXCEPT !.data = WrappedData(run.analysis, run.tmdb, reviewPersona),
                            !.phase = "countdown", !.isLoading = FALSE]
    /\ run' = [run EXCEPT !.pos = Idle]
    /\ net' = net

\* FileUpload hands a file to handleFileSelect (the upload screen is shown
\* and its input is not disabled); the handler runs to its first await, or
\* to the end when it throws before.  One run is in flight at a time: the
\* read of a chosen file is taken to end before another file is chosen.
HandleFileSelectFrom(files) ==
    /\ home.phase = "upload" /\ ~home.isLoading /\ run.pos = Idle
    /\ \E file \in files :
        LET analysis == AnalyzeDiary(file.rows)
        IN IF analysis.error # NoError
           THEN /\ home' = [home EXCEPT !.isLoading = FALSE, !.error = analysis.error]
                /\ run' = [pos |-> Idle, file |-> file, analysis |-> analysis,
                           tmdb |-> NoTmdbData]
           ELSE /\ home' = [home EXCEPT !.isLoading = TRUE, !.error = NoError]
                /\ run' = [pos |-> "awaitTmdb", file |-> file, analysis |-> analysis,
                           tmdb |-> NoTmdbData]
    /\ net' = NoNet
    /\ ui' = HomeRender(ui, home, home')
    /\ UNCHANGED <<entries, arg, op, result, api>>

HandleFileSelect == HandleFileSelectFrom(Files)

\* The /api/tmdb request settles and fetchTMDBData runs from its await to
\* its return
TmdbAnswerArrives ==
    /\ run.pos = "awaitTmdb" /\ net.tmdb = NoAnswer
    /\ LET movies == MoviesToFetch(run.analysis.entries, run.analysis.highlyRated)
       IN \E answer \in FailedAnswers \cup
                {[kind |-> "results", results |-> TmdbBatchResults(catalog, movies)] :
                    catalog \in {"miss", "hit"}} :
            /\ net' = [net EXCEPT !.tmdb = answer]
            /\ run' = [run EXCEPT !.tmdb =
                        fetchTMDBData(run.analysis.entries, run.analysis.highlyRated,
                                      run.analysis.stats.totalFilms, answer)]
    /\ UNCHANGED <<entries, arg, op, result, home, api, ui>>

\* handleFileSelect resumes after `await fetchTMDBData(...)`
TmdbContinue ==
    /\ run.pos = "awaitTmdb" /\ net.tmdb # NoAnswer
    /\ IF run.tmdb.threw
       THEN \* the catch and the finally block
            /\ home' = [home EXCEPT !.isLoading = FALSE,
                                    !.error = ErrorOf("TMDB fetch failed", 0, 0)]
            /\ run' = [run EXCEPT !.pos = Idle]
            /\ net' = net
       ELSE IF run.file.hasReviews /\ Len(run.file.allReviews) > 0
       THEN /\ run' = [run EXCEPT !.pos = "awaitPersona"]
            /\ UNCHANGED <<home, net>>
       ELSE FinishRun(NoPersona)
    /\ ui' = HomeRender(ui, home, home')
    /\ UNCHANGED <<entries, arg, op, result, api>>

\* The /api/analyze-reviews request settles
PersonaAnswerArrives ==
    /\ run.pos = "awaitPersona" /\ net.persona = NoPersonaAnswer
    /\ \E answer \in PersonaAnswers(run.file.allReviews) :
        net' = [net EXCEPT !.persona = answer]
    /\ UNCHANGED <<entries, arg, op, result, home, run, api, ui>>

\* handleFileSelect resumes after the persona fetch and response.json()
PersonaContinue ==
    /\ run.pos = "awaitPersona" /\ net.persona # NoPersonaAnswer
    /\ FinishRun(ReviewPersonaOf(net.persona))
    /\ ui' = HomeRender(ui, home, home')
    /\ UNCHANGED <<entries, arg, op, result, api>>

\* Escape, in any phase, or the close button of the stories.  The four
\* values are set after any update still queued, which they replace.
ResetToUpload ==
    /\ home' = [home EXCEPT !.data = NoData, !.phase = "upload",
                            !.slideIndex = 0, !.progress = 0]
    /\ ui' = [HomeRender(ui, home, home') EXCEPT !.advance = FALSE]
    /\ UNCHANGED <<entries, arg, op, result, run, net, api>>

\* slides.length: buildSlides(data) has seven slides for every report and
\* one more each for top movies, genres and a review persona (the watchlist
\* slide belongs to the upload's watchlist, which is left out); no data, no
\* slides
TotalSlides(data) ==
    IF ~data.set THEN 0
    ELSE 7 + (IF Len(data.topMoviesWithPosters) > 0 THEN 1 ELSE 0)
           + (IF Len(data.genreDistribution) > 0 THEN 1 ELSE 0)
           + (IF data.reviewPersona # NoPersona THEN 1 ELSE 0)

\* FilmCountdown's step timer fires
CountdownStepFires ==
    /\ ui.countdown.mounted /\ ui.countdown.timer = "step"
    /\ ui' = [ui EXCEPT !.countdown = CountdownStep(@)]
    /\ UNCHANGED <<entries, arg, op, result, home, run, net, api>>

\* FilmCountdown's finish timer fires and starts setTimeout(onComplete, 500)
CountdownFinishFires ==
    /\ ui.countdown.mounted /\ ui.countdown.timer = "finish"
    /\ ui.countdownPending < MaxPending
    /\ ui' = [ui EXCEPT !.countdown = CountdownFinish(@), !.countdownPending = @ + 1]
    /\ UNCHANGED <<entries, arg, op, result, home, run, net, api>>

\* onComplete={() => setPhase('curtains')} is called by its timer
CountdownCompletes ==
    /\ ui.countdownPending > 0
    /\ home' = [home EXCEPT !.phase = "curtains"]
    /\ ui' = HomeRender([ui EXCEPT !.countdownPending = @ - 1], home, home')
    /\ UNCHANGED <<entries, arg, op, result, run, net, api>>

\* CurtainsOpening's timer fires and starts setTimeout(onComplete, 300)
CurtainsTimerFires ==
    /\ ui.curtains.mounted /\ ui.curtains.timer = "open"
    /\ ui.curtainsPending < MaxPending
    /\ ui' = [ui EXCEPT !.curtains = CurtainsFinish(@), !.curtainsPending = @ + 1]
    /\ UNCHANGED <<entries, arg, op, result, home, run, net, api>>

\* onComplete={() => setPhase('stories')} is called by its timer
CurtainsCompletes ==
    /\ ui.curtainsPending > 0
    /\ home' = [home EXCEPT !.phase = "stories"]
    /\ ui' = HomeRender([ui EXCEPT !.curtainsPending = @ - 1], home, home')
    /\ UNCHANGED <<entries, arg, op, result, run, net, api>>

\* The auto-advance interval's callback (the interval exists in phase
\* 'stories' while not paused).  Updates made in a timer callback are
\* rendered in a later task: the step to the next slide is queued here and
\* rendered by RenderAdvance.
AutoAdvanceTick ==
    /\ home.phase = "stories" /\ ~home.isPaused /\ ~ui.advance
    /\ IF home.progress >= 100
       THEN IF home.slideIndex < TotalSlides(home.data) - 1
            THEN /\ ui' = [ui EXCEPT !.advance = TRUE]
                 /\ home' = home
            ELSE UNCHANGED <<home, ui>>
       ELSE /\ home' = [home EXCEPT !.progress = @ + 2]
            /\ ui' = HomeRender(ui, home, home')
    /\ UNCHANGED <<entries, arg, op, result, run, net, api>>

\* React renders the queued setSlideIndex(i => i + 1) and progress 0
RenderAdvance ==
    /\ ui.advance
    /\ home' = [home EXCEPT !.slideIndex = @ + 1, !.progress = 0]
    /\ ui' = [HomeRender(ui, home, home') EXCEPT !.advance = FALSE]
    /\ UNCHANGED <<entries, arg, op, result, run, net, api>>

\* setSlideIndex(i => i + 1) of a key or click handler, rendered at once,
\* and the effect that resets progress when slideIndex has changed
MoveSlide(by) ==
    /\ home' = [home EXCEPT !.slideIndex = @ + by, !.progress = 0]
    /\ ui' = HomeRender(ui, home, home')
    /\ UNCHANGED <<entries, arg, op, result, run, net, api>>

\* keydown ArrowRight and ArrowLeft: the listener is on window in every phase
KeyArrowRight == home.slideIndex < TotalSlides(home.data) - 1 /\ MoveSlide(1)
KeyArrowLeft == home.slideIndex > 0 /\ MoveSlide(-1)

\* The click areas of the stories screen
ClickRight ==
    home.phase = "stories" /\ home.slideIndex < TotalSlides(home.data) - 1 /\ MoveSlide(1)
ClickLeft == home.phase = "stories" /\ home.slideIndex > 0 /\ MoveSlide(-1)

\* The pause button of the stories screen
TogglePause ==
    /\ home.phase = "stories"
    /\ home' = [home EXCEPT !.isPaused = ~@]
    /\ ui' = HomeRender(ui, home, home')
    /\ UNCHANGED <<entries, arg, op, result, run, net, api>>

InitHome ==
    /\ home = [data |-> NoData, isLoading |-> FALSE, error |-> NoError,
               phase |-> "upload", slideIndex |-> 0, progress |-> 0,
               isPaused |-> FALSE]
    /\ run = NoRun /\ net = NoNet /\ ui = NoChildren
    /\ entries = <<>> /\ arg = None /\ op = None /\ result = None /\ api = Idle
NextHome ==
    \/ HandleFileSelect
    \/ TmdbAnswerArrives
    \/ TmdbContinue
    \/ PersonaAnswerArrives
    \/ PersonaContinue
    \/ ResetToUpload
SpecHome == InitHome /\ [][NextHome]_vars

\* The page with its timers, keys and clicks, for one diary of MinFilms
\* films without reviews
StoryFiles == {file \in Files : file.rows = DiaryRows(2024, MinFilms) /\ ~file.hasReviews}
NextStories ==
    \/ HandleFileSelectFrom(StoryFiles)
    \/ TmdbAnswerArrives
    \/ TmdbContinue
    \/ ResetToUpload
    \/ CountdownStepFires
    \/ CountdownFinishFires
    \/ CountdownCompletes
    \/ CurtainsTimerFires
    \/ CurtainsCompletes
    \/ AutoAdvanceTick
    \/ RenderAdvance
    \/ KeyArrowRight
    \/ KeyArrowLeft
    \/ ClickRight
    \/ ClickLeft
    \/ TogglePause
SpecStories == InitHome /\ [][NextStories]_vars

\* The handler's own steps are taken once they can be; nothing obliges
\* either service to answer
SpecHomeFair ==
    InitHome /\ [][NextHome]_vars /\ WF_vars(TmdbContinue) /\ WF_vars(PersonaContinue)

-----------------------------------------------------------------------------
(* FilmCountdown under any parent *)

\* The parent renders again and passes a new onComplete (an inline arrow
\* function, as in Home): the effect is cleaned up and runs again
CountdownParentRenders ==
    /\ ui.countdown.mounted /\ ui.renders < MaxRenders
    /\ ui' = [ui EXCEPT !.countdown = CountdownEffect(@), !.renders = @ + 1]
    /\ UNCHANGED <<entries, arg, op, result, home, run, net, api>>

\* The parent stops rendering the component: the cleanup clears the timer of
\* the effect
CountdownUnmounts ==
    /\ ui.countdown.mounted
    /\ ui' = [ui EXCEPT !.countdown = [@ EXCEPT !.mounted = FALSE, !.timer = None]]
    /\ UNCHANGED <<entries, arg, op, result, home, run, net, api>>

\* setTimeout(onComplete, 500) fires: onComplete is called
CountdownOnComplete ==
    /\ ui.countdownPending > 0
    /\ ui' = [ui EXCEPT !.countdownPending = @ - 1, !.completions = @ + 1]
    /\ UNCHANGED <<entries, arg, op, result, home, run, net, api>>

InitCountdown ==
    /\ ui = [countdown |-> CountdownMount, countdownPending |-> 0,
             completions |-> 0, renders |-> 0]
    /\ entries = <<>> /\ arg = None /\ op = None /\ result = None
    /\ home = Idle /\ run = <<>> /\ net = Idle /\ api = Idle
NextCountdown ==
    \/ CountdownStepFires
    \/ CountdownFinishFires
    \/ CountdownOnComplete
    \/ CountdownParentRenders
    \/ CountdownUnmounts
SpecCountdown == InitCountdown /\ [][NextCountdown]_vars

-----------------------------------------------------------------------------
(* MusicToggleButton *)

\* useEffect(..., [autoPlay, play]): the first run with autoPlay sets the
\* hasAutoPlayed ref and starts the 100 ms timer; a later run finds the ref
\* set and starts nothing
MusicEffect(m) ==
    IF m.autoPlay /\ ~m.hasAutoPlayed
    THEN [m EXCEPT !.hasAutoPlayed = TRUE, !.timer = TRUE]
    ELSE m

\* The state after mount: useRef(false), useState(false), and the effect run
\* once.  autoPlays and clickPlays count the calls of play() made by the timer
\* and by handleClick; renders counts the changes of play's identity.
MusicMount(autoPlay) ==
    MusicEffect([mounted |-> TRUE, autoPlay |-> autoPlay, hasAutoPlayed |-> FALSE,
                 timer |-> FALSE, isPlaying |-> FALSE,
                 autoPlays |-> 0, clickPlays |-> 0, renders |-> 0])

\* useSound returns a new play function: the effect's cleanup clears the
\* timer (when this run of the effect had started it) and the effect runs
\* again
MusicPlayChanges ==
    /\ ui.mounted /\ ui.renders < MaxRenders
    /\ ui' = MusicEffect([ui EXCEPT !.timer = FALSE, !.renders = @ + 1])
    /\ UNCHANGED <<entries, arg, op, result, home, run, net, api>>

\* The 100 ms timer fires: play()
MusicTimerFires ==
    /\ ui.mounted /\ ui.timer
    /\ ui' = [ui EXCEPT !.timer = FALSE, !.autoPlays = @ + 1]
    /\ UNCHANGED <<entries, arg, op, result, home, run, net, api>>

\* handleClick: pause() when playing, play() otherwise
MusicClick ==
    /\ ui.mounted /\ ui.clickPlays < MaxClicks
    /\ ui' = IF ui.isPlaying
             THEN [ui EXCEPT !.isPlaying = FALSE]
             ELSE [ui EXCEPT !.isPlaying = TRUE, !.clickPlays = @ + 1]
    /\ UNCHANGED <<entries, arg, op, result, home, run, net, api>>

\* onplay: () => setIsPlaying(true), called by the sound once a play() has
\* started it
MusicOnPlay ==
    /\ ui.mounted /\ ui.autoPlays + ui.clickPlays > 0 /\ ~ui.isPlaying
    /\ ui' = [ui EXCEPT !.isPlaying = TRUE]
    /\ UNCHANGED <<entries, arg, op, result, home, run, net, api>>

\* The parent stops rendering the button: the cleanup clears the timer
MusicUnmounts ==
    /\ ui.mounted
    /\ ui' = [ui EXCEPT !.mounted = FALSE, !.timer = FALSE]
    /\ UNCHANGED <<entries, arg, op, result, home, run, net, api>>

InitMusic ==
    /\ \E autoPlay \in BOOLEAN : ui = MusicMount(autoPlay)
    /\ entries = <<>> /\ arg = None /\ op = None /\ result = None
    /\ home = Idle /\ run = <<>> /\ net = Idle /\ api = Idle
NextMusic ==
    \/ MusicPlayChanges
    \/ MusicTimerFires
    \/ MusicClick
    \/ MusicOnPlay
    \/ MusicUnmounts

\* A timer that stays armed fires
SpecMusic == InitMusic /\ [][NextMusic]_vars /\ WF_vars(MusicTimerFires)

-----------------------------------------------------------------------------
(* CinematicEntrance *)

\* useState('countdown'), useState(false), useState(false); stored is
\* localStorage's STORAGE_KEY being 'true'; nothing is rendered before the
\* mount effect has run
EntranceStart(stored, skipable) ==
    [phase |-> "countdown", shouldSkip |-> FALSE, isLoaded |-> FALSE,
     stored |-> stored, skipable |-> skipable,
     countdown |-> CountdownUnmounted, countdownPending |-> 0,
     curtains |-> CurtainsUnmounted, curtainsPending |-> 0]

\* The animation is rendered once isLoaded is set and unless shouldSkip is
EntranceShowsAnimation(u) == u.isLoaded /\ ~u.shouldSkip

\* The render after a state change: FilmCountdown in phase 'countdown' and
\* CurtainsOpening in phase 'curtains'.  Their onComplete props are
\* useCallback values with no dependencies, so a component that stays mounted
\* keeps its timer.
EntranceRender(u) ==
    [u EXCEPT
        !.countdown = IF ~(EntranceShowsAnimation(u) /\ u.phase = "countdown")
                      THEN CountdownUnmounted
                      ELSE IF u.countdown.mounted THEN u.countdown ELSE CountdownMount,
        !.curtains = IF ~(EntranceShowsAnimation(u) /\ u.phase = "curtains")
                     THEN CurtainsUnmounted
                     ELSE IF u.curtains.mounted THEN u.curtains ELSE CurtainsMount]

\* The mount effect: the stored preference skips the animation
EntranceMountEffect ==
    /\ ~ui.isLoaded
    /\ ui' = EntranceRender(
                IF ui.stored
                THEN [ui EXCEPT !.shouldSkip = TRUE, !.phase = "complete", !.isLoaded = TRUE]
                ELSE [ui EXCEPT !.isLoaded = TRUE])
    /\ op' = "mount"
    /\ UNCHANGED <<entries, arg, result, home, run, net, api>>

\* handleCountdownComplete, called by FilmCountdown's setTimeout(onComplete, 500)
HandleCountdownComplete ==
    /\ ui.countdownPending > 0
    /\ ui' = EntranceRender([ui EXCEPT !.phase = "curtains", !.countdownPending = @ - 1])
    /\ op' = "handleCountdownComplete"
    /\ UNCHANGED <<entries, arg, result, home, run, net, api>>

\* handleCurtainsComplete, called by CurtainsOpening's setTimeout(onComplete, 300)
HandleCurtainsComplete ==
    /\ ui.curtainsPending > 0
    /\ ui' = EntranceRender([ui EXCEPT !.phase = "complete", !.curtainsPending = @ - 1])
    /\ op' = "handleCurtainsComplete"
    /\ UNCHANGED <<entries, arg, result, home, run, net, api>>

\* handleSkip: the Skip Intro button is there while phase !== 'complete' and
\* skipable
HandleSkip ==
    /\ EntranceShowsAnimation(ui) /\ ui.phase # "complete" /\ ui.skipable
    /\ ui' = EntranceRender([ui EXCEPT !.phase = "complete", !.stored = TRUE])
    /\ op' = "handleSkip"
    /\ UNCHANGED <<entries, arg, result, home, run, net, api>>

\* handleReplayIntro: the Replay Intro button is there once phase === 'complete'
HandleReplayIntro ==
    /\ EntranceShowsAnimation(ui) /\ ui.phase = "complete"
    /\ ui' = EntranceRender([ui EXCEPT !.stored = FALSE, !.shouldSkip = FALSE,
                                       !.phase = "countdown"])
    /\ op' = "handleReplayIntro"
    /\ UNCHANGED <<entries, arg, result, home, run, net, api>>

InitEntrance ==
    /\ \E stored \in BOOLEAN : \E skipable \in BOOLEAN :
            ui = EntranceStart(stored, skipable)
    /\ entries = <<>> /\ arg = None /\ op = None /\ result = None
    /\ home = Idle /\ run = <<>> /\ net = Idle /\ api = Idle
NextEntrance ==
    \/ EntranceMountEffect
    \/ CountdownStepFires
    \/ CountdownFinishFires
    \/ HandleCountdownComplete
    \/ CurtainsTimerFires
    \/ HandleCurtainsComplete
    \/ HandleSkip
    \/ HandleReplayIntro
SpecEntrance == InitEntrance /\ [][NextEntrance]_vars

-----------------------------------------------------------------------------
(* Claims about the Home page's phases and slides (SpecStories) *)

\* C25: whenever phase is 'countdown', 'curtains' or 'stories' the report
\* data is non-null; a completion callback that fires after a reset leaves
\* the phase at 'upload'.
C25_ReportPhasesHaveData ==
    home.phase \in {"countdown", "curtains", "stories"} => home.data.set

\* C26: in the stories phase 0 <= slideIndex <= totalSlides - 1 and
\* 0 <= progress <= 100.
C26_SlideIndexAndProgressInRange ==
    home.phase = "stories" =>
        /\ 0 <= home.slideIndex /\ home.slideIndex <= TotalSlides(home.data) - 1
        /\ 0 <= home.progress /\ home.progress <= 100

-----------------------------------------------------------------------------
(* Claims about FilmCountdown (SpecCountdown) *)

\* C28: count goes down by exactly one per step and never below 0, and
\* onComplete is called at most once, only once count is 0 and never after
\* the component has been unmounted.
C28_CountsDownAndCompletesOnce ==
    [][/\ ui'.countdown.count # ui.countdown.count =>
            ui'.countdown.count = ui.countdown.count - 1 /\ ui'.countdown.count >= 0
       /\ ui'.completions # ui.completions =>
            /\ ui'.completions = 1
            /\ ui.countdown.count = 0
            /\ ui.countdown.mounted]_vars

-----------------------------------------------------------------------------
(* Claims about MusicToggleButton (SpecMusic) *)

\* C29: mounted with autoPlay, the button calls play() by itself exactly
\* once, sooner or later, for as long as it stays mounted and also when
\* play's identity changes before the timer has fired; without autoPlay it
\* never calls play() by itself.
C29_AutoPlayStartsExactlyOnce ==
    /\ [](ui.autoPlays <= 1)
    /\ [](~ui.autoPlay => ui.autoPlays = 0)
    /\ (ui.autoPlay ~> (ui.autoPlays = 1 \/ ~ui.mounted))

-----------------------------------------------------------------------------
(* Claims about CinematicEntrance (SpecEntrance) *)

PhaseRank(phase) ==
    CASE phase = "countdown" -> 1 [] phase = "curtains" -> 2 [] phase = "complete" -> 3

\* C27: the phase only moves forward, countdown -> curtains -> complete;
\* only Replay Intro moves it to an earlier phase, so that once it is
\* 'complete' it stays so until Replay Intro and no late completion callback
\* moves it back.
C27_PhaseOnlyMovesForward ==
    [][PhaseRank(ui'.phase) < PhaseRank(ui.phase) => op' = "handleReplayIntro"]_vars

-----------------------------------------------------------------------------
(* Claims about classifyArchetype (SpecArchetype) *)

\* C1: classifyArchetype is a first-match decision list: marathoner iff
\* totalFilms >= 100; otherwise comfort-rewinder iff rewatches / totalFilms
\* >= 0.3; otherwise chaos-curator iff the taste profile's ratingVolatility
\* > 0.5; otherwise prestige-purist iff avgRating >= 4.0; otherwise
\* emotional-explorer.  150 films with rewatch ratio 0.5 give marathoner;
\* 10 films, 4 rewatches, average 3.0 give comfort-rewinder.
C1_FirstMatchDecisionList ==
    op = "classifyArchetype" =>
        LET t == arg.totalFilms
            r1 == t >= 100
            r2 == t > 0 /\ 10 * arg.rewatches >= 3 * t
            vol == calculateTasteProfile(entries).ratingVolatility
            r3 == vol # NaN /\ vol > 50
            r4 == arg.avgRating >= 400
        IN /\ (result.id = "marathoner") <=> r1
           /\ (result.id = "comfort-rewinder") <=> (~r1 /\ r2)
           /\ (result.id = "chaos-curator") <=> (~r1 /\ ~r2 /\ r3)
           /\ (result.id = "prestige-purist") <=> (~r1 /\ ~r2 /\ ~r3 /\ r4)
           /\ (result.id = "emotional-explorer") <=> (~r1 /\ ~r2 /\ ~r3 /\ ~r4)
           /\ (t = 150 /\ arg.rewatches = 75) => result.id = "marathoner"
           /\ (t = 10 /\ arg.rewatches = 4 /\ arg.avgRating = 300)
                => result.id = "comfort-rewinder"

\* C1 witness: the rule-2-before-rule-4 scenario has been classified, on
\* entries whose volatility would also have matched rule 3.
C1_Witness ==
    /\ op = "classifyArchetype"
    /\ arg.totalFilms = 10 /\ arg.rewatches = 4 /\ arg.avgRating = 300
    /\ calculateTasteProfile(entries).ratingVolatility > 50
    /\ result.id = "comfort-rewinder"

-----------------------------------------------------------------------------
(* Claims about detectTargetYear and filterByYear (SpecYear) *)

\* The rows of es whose date parses and lies in year y
RowsInYear(es, y) == {i \in 1..Len(es) : es[i].Date.valid /\ es[i].Date.y = y}
CountInYear(es, y) == Cardinality(RowsInYear(es, y))
YearsSeen(es) == {es[i].Date.y : i \in {j \in 1..Len(es) : es[j].Date.valid}}
TopYears(es) ==
    {y \in YearsSeen(es) : \A z \in YearsSeen(es) : CountInYear(es, z) <= CountInYear(es, y)}
FirstRow(es, y) == CHOOSE i \in RowsInYear(es, y) : \A j \in RowsInYear(es, y) : i <= j

\* C6: detectTargetYear returns a year whose count of entries with a
\* parseable date is maximal over all years; unparseable dates count for no
\* year.  With 7 entries in one year and 9 in another the year with 9 is
\* returned.
C6_YearHasMaximalCount ==
    op = "detectTargetYear" =>
        /\ \A y \in YearValues \cup {0, CurrentYear} :
              CountInYear(entries, y) <= CountInYear(entries, result)
        /\ YearsSeen(entries) # {} => result \in YearsSeen(entries)
        /\ entries = TwoYearDiary(2024, 7, 2023, 9) => result = 2023
        /\ entries = TwoYearDiary(2023, 7, 2024, 9) => result = 2024

\* C6 witness: the 7-and-9 diary, the larger year coming second, was detected.
C6_Witness ==
    /\ op = "detectTargetYear"
    /\ entries = TwoYearDiary(2023, 7, 2024, 9)
    /\ result = 2024

\* C7 as claimed: when years tie for the highest count, the tied year met
\* first in the input sequence is returned.
C7_FirstEncounteredTieWins ==
    (op = "detectTargetYear" /\ Cardinality(TopYears(entries)) >= 2) =>
        \A y \in TopYears(entries) : FirstRow(entries, result) <= FirstRow(entries, y)

\* C7 as amended: when years tie for the highest count, the numerically
\* smallest tied year is returned, wherever it first occurs in the input.
C7_SmallestTiedYearWins ==
    (op = "detectTargetYear" /\ Cardinality(TopYears(entries)) >= 2) =>
        /\ result \in TopYears(entries)
        /\ \A y \in TopYears(entries) : result <= y

\* C7 witness: two years tie, the larger one occurs first, the smaller one
\* was returned.
C7_Witness ==
    /\ op = "detectTargetYear"
    /\ Len(entries) = 2
    /\ entries[1].Date = DateOf(2024, 1, 1)
    /\ entries[2].Date = DateOf(2023, 1, 1)
    /\ result = 2023

\* C8: filterByYear(entries, year) returns exactly the entries whose date
\* parses and falls in the year: none missing, none extra, none duplicated,
\* in the order of the input.
C8_FilterIsExactSubsequence ==
    op = "filterByYear" =>
        /\ \A k \in 1..Len(result) :
              /\ result[k].URI \in RowsInYear(entries, arg)
              /\ result[k] = entries[result[k].URI]
        /\ \A i \in RowsInYear(entries, arg) : \E k \in 1..Len(result) : result[k].URI = i
        /\ \A k \in 1..Len(result) : \A l \in 1..Len(result) :
              k < l => result[k].URI < result[l].URI

\* C8 witness: the 9 entries of 2023 were filtered out of the 7-and-9 diary.
C8_Witness ==
    /\ op = "filterByYear"
    /\ entries = TwoYearDiary(2024, 7, 2023, 9)
    /\ arg = 2023
    /\ Len(result) = 9

-----------------------------------------------------------------------------
(* Claims about calculateStats (SpecStats) *)

\* Every letter-case variant of "yes"
YesTexts == {"yes", "yeS", "yEs", "yES", "Yes", "YeS", "YEs", "YES"}

\* C9: uniqueFilms <= totalFilms and rewatches <= totalFilms, totalFilms being
\* the number of entries, uniqueFilms the number of distinct titles, rewatches
\* the number of entries marked 'yes' in any letter case.
C9_CountsWithinTotal ==
    op = "calculateStats" =>
        /\ result.totalFilms = Len(entries)
        /\ result.uniqueFilms = Cardinality({entries[i].Name : i \in 1..Len(entries)})
        /\ result.rewatches =
              Cardinality({i \in 1..Len(entries) : entries[i].Rewatch \in YesTexts})
        /\ result.uniqueFilms <= result.totalFilms
        /\ result.rewatches <= result.totalFilms

\* C9 witness: three entries, two titles, two rewatches marked in different
\* letter cases.
C9_Witness ==
    /\ op = "calculateStats"
    /\ Len(entries) = 3
    /\ {entries[i].Rewatch : i \in 1..3} = {"Yes", "YES", "No"}
    /\ result.uniqueFilms = 2
    /\ result.rewatches = 2

\* C10: rewatchPct = round(100 * rewatches / totalFilms) (round half up) when
\* totalFilms > 0, rewatchPct = 0 when totalFilms = 0, and 0 <= rewatchPct <= 100.
C10_RewatchPctIsRoundedRatio ==
    op = "calculateStats" =>
        /\ result.totalFilms > 0 =>
              result.rewatchPct =
                  (200 * result.rewatches + result.totalFilms) \div (2 * result.totalFilms)
        /\ result.totalFilms = 0 => result.rewatchPct = 0
        /\ result.rewatchPct >= 0 /\ result.rewatchPct <= 100

\* C11: avgRating is the sum of the ratings divided by the number of entries
\* with a non-null, non-NaN rating, rounded to 2 decimals (round half up of
\* the exact mean, in hundredths); unrated entries do not change it; it is 0
\* when no entry is rated.
C11_AvgRatingIsRoundedMeanOfRated ==
    op = "calculateStats" =>
        LET rated == SelectSeq(entries, IsRated)
            n == Len(rated)
            halves == Sum(RatingsOf(rated))
        IN /\ n = 0 => result.avgRating = 0
           /\ n > 0 => result.avgRating = (100 * halves + n) \div (2 * n)
           /\ result.avgRating = calculateStats(rated).avgRating

\* entries with two positions exchanged
Swap(es, i, j) == [es EXCEPT ![i] = es[j], ![j] = es[i]]

\* C12: every MovieStats field is the same for entry sequences that are
\* permutations of each other; checked against every reordering of lists of
\* up to 5 entries and against every exchange of two entries of longer ones.
C12_StatsInvariantUnderPermutation ==
    op = "calculateStats" =>
        /\ Len(entries) <= 5 =>
              \A p \in Permutations(1..Len(entries)) :
                  calculateStats([i \in 1..Len(entries) |-> entries[p[i]]]) = result
        /\ Len(entries) > 5 =>
              \A i \in 1..(Len(entries) - 1) :
                  calculateStats(Swap(entries, i, i + 1)) = result

\* Stats of a list that has rated and unrated entries with differing ratings
\* and differing rewatch marks, so that reordering it moves every field's
\* inputs.
C12_Witness ==
    /\ op = "calculateStats"
    /\ Len(entries) = 4
    /\ {entries[i].Rating : i \in 1..4} = {NullRating, 6, 9, 10}
    /\ result.avgRating = 417

\* C22: for the empty entry sequence calculateStats and classifyArchetype
\* give rewatchPct = 0, avgRating = 0 and the default archetype, and no
\* division by totalFilms is evaluated: no NaN is computed or carried.
C22_NoDivisionByZeroTotal ==
    (op = "classifyArchetype" /\ entries = <<>>) =>
        /\ result.stats.rewatchPct = 0
        /\ result.stats.avgRating = 0
        /\ result.archetype.id = "emotional-explorer"
        /\ ~result.rewatchRatioIsNaN
        /\ \A k \in 1..Len(result.archetypes) :
                \A j \in 1..Len(result.archetypes[k].evidence) :
                    result.archetypes[k].evidence[j] # NaN

-----------------------------------------------------------------------------
(* Claims about calculateTasteProfile and parseCSV (SpecCsv) *)

\* The ratings calculateTasteProfile counts: those that are not null
NonNullRatings(es) == RatingsOf(SelectSeq(es, LAMBDA e : e.Rating # NullRating))
HasNaN(ratings) == \E i \in 1..Len(ratings) : ratings[i] = NaNRating

\* C13: calculateTasteProfile returns exactly the neutral default
\* {stabilityScore 50, ratingVolatility 0.5, isContrarian false,
\* contrarianScore 0} whenever fewer than 5 entries have a (non-null) rating,
\* and a profile computed from the ratings alone when at least 5 have.
C13_DefaultBelowFiveRated ==
    op = "calculateTasteProfile" =>
        LET n == Len(NonNullRatings(entries))
        IN /\ n < 5 =>
                result = [stabilityScore |-> 50, ratingVolatility |-> 50,
                          isContrarian |-> FALSE, contrarianScore |-> 0]
           /\ n >= 5 =>
                /\ result # DefaultTasteProfile
                /\ result = calculateTasteProfile(
                                SelectSeq(entries, LAMBDA e : e.Rating # NullRating))

\* The default returned for six entries of which four are rated.
C13_Witness ==
    /\ op = "calculateTasteProfile"
    /\ Len(entries) = 6
    /\ NonNullRatings(entries) = <<10, 3, 5, 10>>
    /\ result = DefaultTasteProfile

\* C14: for every entry sequence parseCSV produces, rows with non-numeric
\* rating text included, ratingVolatility is a number in [0, 1] (0..100
\* hundredths) and stabilityScore is an integer in [0, 100].
C14_VolatilityAndStabilityInRange ==
    op = "calculateTasteProfile" =>
        /\ result.ratingVolatility \in 0..100
        /\ result.stabilityScore \in 0..100

\* C15 as stated: with at least 5 rated entries, isContrarian =
\* (mean < 3.5) OR (ratingVolatility > 0.6) with ratingVolatility the value
\* reported in the same profile.
C15_ContrarianFromReportedVolatility ==
    (op = "calculateTasteProfile" /\ Len(NonNullRatings(entries)) >= 5) =>
        LET ratings == NonNullRatings(entries)
        IN result.isContrarian =
              \/ (~HasNaN(ratings) /\ Sum(ratings) < 7 * Len(ratings))
              \/ Gt(result.ratingVolatility, 60)

\* C15, amended: with at least 5 rated entries, isContrarian =
\* (mean < 3.5) OR (v > 0.6) for v = min(population stdDev / 2.5, 1) before
\* it is rounded to the reported ratingVolatility (v > 0.6 iff the variance
\* exceeds 2.25); both comparisons are false when a rating is NaN; ratings
\* [5, 5, 1, 5, 1] give true.
C15_ContrarianFromUnroundedVolatility ==
    (op = "calculateTasteProfile" /\ Len(NonNullRatings(entries)) >= 5) =>
        LET ratings == NonNullRatings(entries)
            n == Len(ratings)
            variance4nn == n * SumSquares(ratings) - Sum(ratings) * Sum(ratings)
        IN /\ result.isContrarian =
                /\ ~HasNaN(ratings)
                /\ \/ 10 * Sum(ratings) < 70 * n
                   \/ 4 * variance4nn > 9 * 4 * n * n
           /\ ratings = <<10, 10, 2, 10, 2>> => result.isContrarian

\* Ratings 1.5, 2.5, 5, 5, 5: mean 3.8, volatility 0.6013 reported as 0.6,
\* isContrarian true.
C15_Witness ==
    /\ op = "calculateTasteProfile"
    /\ NonNullRatings(entries) = <<3, 5, 10, 10, 10>>
    /\ result.ratingVolatility = 60
    /\ result.isContrarian

\* C16: parseCSV yields rating = null for every record whose rating field is
\* empty or non-numeric and releaseYear = 0 for every record whose
\* release-year field is empty; it never yields a NaN rating.
C16_EmptyOrNonNumericRatingIsNull ==
    op # None =>
        LET records == PapaParse(arg)
        IN \A i \in 1..Len(entries) :
            /\ records[i].Rating \in {"", "abc"} => entries[i].Rating = NullRating
            /\ records[i].Year = "" => entries[i].Year = 0
            /\ entries[i].Rating # NaNRating

\* The header cell's logical column: its trimmed text, letter case ignored
LogicalName(text) ==
    CASE Trim(text) \in {"Name", "name"} -> "Name"
      [] Trim(text) \in {"Rating", "rating"} -> "Rating"
      [] Trim(text) \in {"Year", "year"} -> "Year"
      [] OTHER -> Trim(text)

\* The csv with its columns in the order p and its header cells written
\* exactly as the logical names
Recast(csv, p) ==
    [header |-> [k \in 1..Len(csv.header) |-> LogicalName(csv.header[p[k]])],
     rows |-> [i \in 1..Len(csv.rows) |->
                [k \in 1..Len(csv.header) |-> csv.rows[i][p[k]]]]]

\* C17: inputs that differ only in header letter case, header padding or
\* column order yield the same entry sequence.
C17_HeadersMatchedByLogicalName ==
    op # None =>
        \A p \in Permutations(1..Len(arg.header)) :
            parseCSV(PapaParse(Recast(arg, p))) = entries

-----------------------------------------------------------------------------
(* Claims about parseCSVLine (SpecLine) *)

\* The commas of a line that an even number of quotes precede
CommasOutsideQuotes(line) ==
    {i \in 1..Len(line) :
        /\ line[i] = Comma
        /\ Cardinality({j \in 1..(i - 1) : line[j] = Quote}) % 2 = 0}

\* The fields joined again by commas
RECURSIVE JoinFields(_)
JoinFields(fields) ==
    IF Len(fields) = 1 THEN fields[1]
    ELSE fields[1] \o <<Comma>> \o JoinFields(Tail(fields))

\* C18: parseCSVLine returns 1 + (the number of commas outside quotes)
\* fields, no field contains a quote character, and the fields joined by
\* commas are the line without its quotes, so that a comma inside quotes
\* stays in its field.
C18_QuotesToggleLiteralMode ==
    op = "parseCSVLine" =>
        /\ Len(result) = 1 + Cardinality(CommasOutsideQuotes(arg))
        /\ \A k \in 1..Len(result) : \A j \in 1..Len(result[k]) : result[k][j] # Quote
        /\ JoinFields(result) = SelectSeq(arg, LAMBDA c : c # Quote)

\* The line "a,a", is split into the field a,a and an empty field
C18_Witness ==
    /\ op = "parseCSVLine"
    /\ arg = <<Quote, "a", Comma, "a", Quote, Comma>>
    /\ result = << <<"a", Comma, "a">>, <<>> >>

-----------------------------------------------------------------------------
(* Claims about getHighlyRatedFilms and findMostWatchedDay (SpecFilms) *)

\* The entries that have a number as rating, at least min
Qualifying(min) ==
    {i \in 1..Len(entries) :
        /\ entries[i].Rating \notin {NullRating, NaNRating}
        /\ entries[i].Rating >= min}

\* Entry j comes before entry i: higher rating, or equal rating and earlier
ComesBefore(j, i) ==
    \/ entries[j].Rating > entries[i].Rating
    \/ entries[j].Rating = entries[i].Rating /\ j < i

\* C19: getHighlyRatedFilms returns the entries with a non-null rating >=
\* minRating (4.5, nine half stars, when left out), by non-increasing rating
\* with equal ratings in input order, cut to the first 6.
C19_HighlyRatedFilmsFilteredSortedTruncated ==
    op = "getHighlyRatedFilms" =>
        LET min == IF arg = Omitted THEN 9 ELSE arg
            Q == Qualifying(min)
            Rank(i) == Cardinality({j \in Q : ComesBefore(j, i)})
        IN /\ Len(result) = (IF Cardinality(Q) < 6 THEN Cardinality(Q) ELSE 6)
           /\ \A i \in Q :
                Rank(i) < 6 =>
                    result[Rank(i) + 1] = [name |-> entries[i].Name,
                                           rating |-> entries[i].Rating,
                                           year |-> entries[i].Year]

\* Seven films rated 4 and above with minRating 4: the three rated 5, then
\* the three rated 4.5, each in input order, and the film rated 4 cut off
C19_Witness ==
    /\ op = "getHighlyRatedFilms"
    /\ arg = 8
    /\ [i \in 1..Len(entries) |-> entries[i].Rating] = <<9, 10, 8, 9, 10, 9, 10>>
    /\ [i \in 1..Len(result) |-> result[i].name] = <<"F2", "F5", "F7", "F1", "F4", "F6">>

\* The entries logged on the calendar day of date
LoggedOn(date) == {i \in 1..Len(entries) : DateOnly(entries[i].Date) = date}

\* The least element of a non-empty set of integers
Least(S) == CHOOSE i \in S : \A j \in S : i <= j

\* C20: findMostWatchedDay returns a date-only date whose group is largest
\* and, among the largest, first encountered; count is the length of films;
\* films are the titles logged on that date in input order; the empty input
\* gives {date: null, count: 0, films: []}.
C20_MostWatchedDayIsFirstLargestGroup ==
    op = "findMostWatchedDay" =>
        IF entries = <<>>
        THEN result = [date |-> NullDate, count |-> 0, films |-> <<>>]
        ELSE LET onDay == SelectSeq(entries, LAMBDA e : DateOnly(e.Date) = result.date)
             IN /\ \E i \in 1..Len(entries) : result.date = DateOnly(entries[i].Date)
                /\ result.count = Len(result.films)
                /\ result.films = [i \in 1..Len(onDay) |-> onDay[i].Name]
                /\ \A j \in 1..Len(entries) :
                    LET group == LoggedOn(DateOnly(entries[j].Date))
                    IN /\ Cardinality(group) <= result.count
                       /\ Cardinality(group) = result.count =>
                            Least(LoggedOn(result.date)) <= Least(group)

\* The first position of a sequence of counts that holds their maximum
FirstMaximal(counts) ==
    Least({k \in 1..Len(counts) : \A z \in 1..Len(counts) : counts[z] <= counts[k]})

\* C21: calculateDistribution reports the 12 month buckets and the 7 weekday
\* buckets, the counts of each summing to the number of entries whose date
\* parses; busiestMonth and busiestDay name the first bucket, in bucket
\* order, among those of maximal count.
C21_DistributionBucketsAndBusiest ==
    op = "calculateDistribution" =>
        LET parseable == Cardinality({i \in 1..Len(entries) : entries[i].Date.valid})
            weekCounts == [d \in 1..7 |-> result.weekly[d][2]]
        IN /\ DOMAIN result.monthly = 1..12
           /\ [d \in 1..7 |-> result.weekly[d][1]] = DayNames
           /\ Sum(result.monthly) = parseable
           /\ Sum(weekCounts) = parseable
           /\ result.busiestMonth = MonthNames[FirstMaximal(result.monthly)]
           /\ result.busiestDay = DayNames[FirstMaximal(weekCounts)]

\* A film in March on a Monday, an undated one, then one in December on a
\* Sunday: the buckets tie at one and the earlier buckets are reported
C21_Witness ==
    /\ op = "calculateDistribution"
    /\ [i \in 1..Len(entries) |-> entries[i].Date] =
            <<DateOf(2024, 3, 4), BadDate, DateOf(2023, 12, 31)>>
    /\ result.monthly[3] = 1 /\ result.monthly[12] = 1
    /\ result.busiestMonth = "Mar"
    /\ result.busiestDay = "Sunday"

-----------------------------------------------------------------------------
(* Claims about the analytics operations applied in turn (SpecAnalytics) *)

-----------------------------------------------------------------------------
(* Claims about the batch metadata endpoint (SpecTmdb) *)

\* The lookup of the movie at position i finds nothing: its title cannot be
\* put into a query, a fetch fails, a response is not ok or unreadable, or the
\* searches return no result
LookupMisses(i) ==
    \/ arg.movies[i].name = Unencodable
    \/ net[i].first \in {"rejects", "notOk", "badJson"}
    \/ net[i].first = "empty" /\ (arg.movies[i].year = 0 \/ net[i].second # "hit")

\* C24: for a request with a non-empty array of titles (and the key
\* configured), the endpoint answers with one result for each of the first
\* 20 titles, in request order; a title whose lookup misses or fails has
\* {posterUrl: null, genres: []}, the others their own results, and the
\* response is no error.
C24_BatchToleratesLookupMisses ==
    (op = "tmdbPost" /\ arg.apiKey /\ arg.isArray /\ arg.movies # <<>>) =>
        /\ result.status = 200
        /\ Len(result.results) = (IF Len(arg.movies) < 20 THEN Len(arg.movies) ELSE 20)
        /\ \A i \in 1..Len(result.results) :
            /\ result.results[i].name = arg.movies[i].name
            /\ LookupMisses(i) =>
                    (result.results[i].posterUrl = NoPoster /\ result.results[i].genres = <<>>)
            /\ ~LookupMisses(i) => result.results[i].genres # <<>>

-----------------------------------------------------------------------------
(* Claims about assignGenreColors (SpecGenres) *)

\* C30: for a non-empty list of genre counts, each at least 1,
\* assignGenreColors returns at most 5 entries, in input order, whose integer
\* percentages each lie in 0..100 and sum to exactly 100; for the empty list
\* it returns the empty list.
C30_PercentagesSumToHundred ==
    op = "assignGenreColors" =>
        /\ Len(result) = (IF Len(arg) < 5 THEN Len(arg) ELSE 5)
        /\ \A i \in 1..Len(result) :
            /\ result[i].genre = arg[i].genre
            /\ result[i].count = arg[i].count
            /\ result[i].percentage \in 0..100
        /\ Len(arg) > 0 => Sum([i \in 1..Len(result) |-> result[i].percentage]) = 100

\* Six genres with counts 1, 1, 1, 1, 4, 2: the first five are kept, four
\* shares of 12.5 round to 13 and the largest is lowered from 50 to 48
C30_Witness ==
    /\ op = "assignGenreColors"
    /\ [i \in 1..Len(arg) |-> arg[i].count] = <<1, 1, 1, 1, 4, 2>>
    /\ [i \in 1..Len(result) |-> result[i].percentage] = <<13, 13, 13, 13, 48>>

-----------------------------------------------------------------------------
(* Claims about the persona endpoint (SpecPersona) *)

\* C4: the persona endpoint supplies the fixed fallback persona in both
\* failure cases, when the generation service call throws and when its
\* output cannot be parsed as JSON; in neither does it answer with an error.
C4_FallbackOnEveryServiceFailure ==
    (api.pos = "responded" /\ api.generation # NoGeneration) =>
        LET failed ==
                \/ api.generation.kind \in {"rejects", "textThrows"}
                \/ ~JsonParse(JsonMatch(api.generation.text)).ok
        IN failed => /\ api.response.status = 200
                     /\ api.response.error = None
                     /\ api.response.persona = FallbackPersona


-----------------------------------------------------------------------------
(* Claims about the Home page's analysis run (SpecHome, SpecHomeFair) *)

\* The entries of the detected year in the file the run was given
FilteredOf(file) ==
    filterByYear(parseCSV(file.rows), detectTargetYear(parseCSV(file.rows)))

\* C2: whenever the entries filtered to the detected year number fewer than
\* 5, the analysis run ends with a non-null error, sets no report data and
\* leaves the page in the 'upload' phase.
C2_TooFewFilmsEndInError ==
    (/\ run.pos = Idle
     /\ Len(run.file.rows) > 0
     /\ Len(FilteredOf(run.file)) < 5)
    => /\ home.error # NoError
       /\ home.error.films = Len(FilteredOf(run.file))
       /\ home.data = NoData
       /\ home.phase = "upload"
       /\ ~home.isLoading

\* A run over four films of the detected year has ended.
C2_Witness ==
    /\ run.pos = Idle
    /\ Len(FilteredOf(run.file)) = 4
    /\ home.error = ErrorOf("Only n films found for year", 4, 2024)
    /\ home.data = NoData

\* C3: a failure of the metadata enrichment call (network error, non-OK
\* status, malformed response) is never fatal: the step that ends such a
\* run sets the report data with an empty genreDistribution and the top
\* films with posterUrl = null, leaves error = null and moves the page to
\* 'countdown'.
C3_TmdbFailureIsNotFatal ==
    [][(/\ run.pos # Idle
        /\ run'.pos = Idle
        /\ net'.tmdb \in FailedAnswers)
       => /\ home'.data.set
          /\ home'.data.genreDistribution = <<>>
          /\ Len(home'.data.topMoviesWithPosters) = Len(home'.data.highlyRated)
          /\ \A i \in 1..Len(home'.data.topMoviesWithPosters) :
                /\ home'.data.topMoviesWithPosters[i].posterUrl = NoPoster
                /\ home'.data.topMoviesWithPosters[i].name = home'.data.highlyRated[i].name
          /\ home'.error = NoError
          /\ home'.phase = "countdown"
          /\ ~home'.isLoading]_vars

\* A run whose /api/tmdb fetch was rejected has ended with a report that
\* lists top films.
C3_Witness ==
    /\ run.pos = Idle
    /\ net.tmdb.kind = "rejects"
    /\ home.data.set
    /\ Len(home.data.topMoviesWithPosters) > 0
    /\ home.phase = "countdown"

\* C5: every analysis run started by a file selection eventually finishes
\* (isLoading returns to false with report data or an error set), even when
\* the metadata or persona service never responds.
C5_EveryRunFinishes ==
    home.isLoading ~> (~home.isLoading /\ (home.data.set \/ home.error # NoError))

=============================================================================
